---- MODULE Spec2Model ----
(***************************************************************************)
(* Model of modularisan's configuration and module-generation engine:      *)
(* ModuleService (core/module-service.ts), AIService.saveGeneratedCode     *)
(* (core/ai-service.ts), ConfigManager (core/config-manager.ts) with the   *)
(* config:set command (commands/config.ts), FrameworkDetector              *)
(* (core/framework-detector.ts) and the naming utilities                   *)
(* (utils/validators.ts), over an explicit model of the local file system. *)
(*                                                                         *)
(* Strings are sequences of one-character strings, so that validation,     *)
(* concatenation of a name with an extension and the regular-expression    *)
(* replacements are computed character by character.  A path is a          *)
(* sequence of such names, relative to the project root (rootDir = <<>>).  *)
(* Names never hold "/" and are never "", "." or "..".                     *)
(***************************************************************************)
EXTENDS Integers, Sequences, FiniteSets, TLC

VARIABLES fs, config, last, calls, created, cache, nextOid, reads, loaded, FRAMEWORK_CONFIGS

vars == <<fs, config, last, calls, created, cache, nextOid, reads, loaded, FRAMEWORK_CONFIGS>>

\* the state of the ConfigManager
cmVars == <<cache, nextOid, reads, loaded>>

(***************************************************************************)
(* Bounds of the model.                                                    *)
(***************************************************************************)
MaxCalls == 2

MaxConfigCalls == 3

(***************************************************************************)
(* Characters and the literal strings of the source.                       *)
(***************************************************************************)
Lower == {"a","b","c","d","e","f","g","h","i","j","k","l","m",
          "n","o","p","q","r","s","t","u","v","w","x","y","z"}

Digit == {"0","1","2","3","4","5","6","7","8","9"}

S_components == <<"c","o","m","p","o","n","e","n","t","s">>
S_services == <<"s","e","r","v","i","c","e","s">>
S_types == <<"t","y","p","e","s">>
S_hooks == <<"h","o","o","k","s">>
S_utils == <<"u","t","i","l","s">>
S_tests == <<"t","e","s","t","s">>
S_utests == <<"_","_","t","e","s","t","s","_","_">>
S_controllers == <<"c","o","n","t","r","o","l","l","e","r","s">>
S_middleware == <<"m","i","d","d","l","e","w","a","r","e">>
S_styles == <<"s","t","y","l","e","s">>
S_pages == <<"p","a","g","e","s">>
S_routes == <<"r","o","u","t","e","s">>
S_api == <<"a","p","i">>
S_index == <<"i","n","d","e","x">>
S_index_ts == <<"i","n","d","e","x",".","t","s">>
S_README_md == <<"R","E","A","D","M","E",".","m","d">>
S_package_json == <<"p","a","c","k","a","g","e",".","j","s","o","n">>
S_modules == <<"m","o","d","u","l","e","s">>
S_git == <<".","g","i","t">>
S_features == <<"f","e","a","t","u","r","e","s">>
S_legacy_yml == <<"n","e","x","t","i","s","a","n",".","c","o","n","f","i","g",".","y","m","l">>
S_legacy_json == <<"n","e","x","t","i","s","a","n",".","c","o","n","f","i","g",".","j","s","o","n">>
Ext_json == <<".","j","s","o","n">>
S_misan_yml == <<"m","i","s","a","n",".","c","o","n","f","i","g",".","y","m","l">>
S_config_yml == <<"m","o","d","u","l","a","r","i","s","a","n",".","c","o","n","f","i","g",".","y","m","l">>

Ext_ts == <<".","t","s">>
Ext_tsx == <<".","t","s","x">>
Ext_test_ts == <<".","t","e","s","t",".","t","s">>
Ext_spec_ts == <<".","s","p","e","c",".","t","s">>
Ext_js == <<".","j","s">>
Ext_jsx == <<".","j","s","x">>
Ext_vue == <<".","v","u","e">>
Ext_md == <<".","m","d">>
Ext_test == <<".","t","e","s","t">>
S_generated == <<"g","e","n","e","r","a","t","e","d">>
Ext_stories_tsx == <<".","s","t","o","r","i","e","s",".","t","s","x">>

Range(s) == {s[i] : i \in 1..Len(s)}

LowerLetters ==
  <<"a","b","c","d","e","f","g","h","i","j","k","l","m","n","o","p","q","r","s","t","u","v","w","x","y","z">>

UpperLetters ==
  <<"A","B","C","D","E","F","G","H","I","J","K","L","M","N","O","P","Q","R","S","T","U","V","W","X","Y","Z">>

Upper == Range(UpperLetters)

toUpperCase(c) ==
  IF c \in Lower THEN UpperLetters[CHOOSE i \in 1..26 : LowerLetters[i] = c] ELSE c

toLowerCase(c) ==
  IF c \in Upper THEN LowerLetters[CHOOSE i \in 1..26 : UpperLetters[i] = c] ELSE c

MapChars(Op(_), str) == [i \in 1..Len(str) |-> Op(str[i])]

(***************************************************************************)
(* The framework profile table of core/framework-detector.ts.  It is one   *)
(* object per process; of a profile only the version field is ever         *)
(* written, so the table is kept as the version of each key (<<>> while    *)
(* the field is undefined).                                                *)
(***************************************************************************)
FrameworkKeys == {"next", "nuxt", "nest", "vue", "svelte", "angular", "express", "react"}

InitialProfiles == [k \in FrameworkKeys |-> [version |-> <<>>]]

(***************************************************************************)
(* The file system: a function from the paths that exist to their nodes.   *)
(* The project root <<>> always exists.  A file's content is a sequence    *)
(* of lines; a rendered template is one opaque line that holds no export   *)
(* line.                                                                   *)
(***************************************************************************)
DirNode == [kind |-> "dir", content |-> <<>>]

FileNode(c) == [kind |-> "file", content |-> c]

IsPrefix(p, q) == Len(p) <= Len(q) /\ SubSeq(q, 1, Len(p)) = p

Parent(p) == SubSeq(p, 1, Len(p) - 1)

pathExists(f, p) == p \in DOMAIN f

IsDir(f, p) == p \in DOMAIN f /\ f[p].kind = "dir"

IsFile(f, p) == p \in DOMAIN f /\ f[p].kind = "file"

\* fs.ensureDir: mkdir -p; fails when the path or one of its ancestors is a file
ensureDir(f, p) ==
  IF \E k \in 0..Len(p) : IsFile(f, SubSeq(p, 1, k))
  THEN [ok |-> FALSE, fs |-> f]
  ELSE [ok |-> TRUE,
        fs |-> [q \in DOMAIN f \cup {SubSeq(p, 1, k) : k \in 0..Len(p)} |->
                  IF q \in DOMAIN f THEN f[q] ELSE DirNode]]

\* fs.writeFile: the parent must be a directory and the target no directory
writeFile(f, p, c) ==
  IF p = <<>> \/ ~IsDir(f, Parent(p)) \/ IsDir(f, p)
  THEN [ok |-> FALSE, fs |-> f]
  ELSE [ok |-> TRUE,
        fs |-> [q \in DOMAIN f \cup {p} |-> IF q = p THEN FileNode(c) ELSE f[q]]]

\* fs.appendFile: creates the file when it does not exist
appendFile(f, p, c) ==
  IF IsFile(f, p) THEN writeFile(f, p, f[p].content \o c) ELSE writeFile(f, p, c)

\* fs.remove: rm -rf; removing a path that does not exist is no error
remove(f, p) == [q \in {r \in DOMAIN f : ~IsPrefix(p, r)} |-> f[q]]

\* fs.readdir: the names of the entries directly inside p
readdir(f, p) == {q[Len(q)] : q \in {r \in DOMAIN f : Len(r) = Len(p) + 1 /\ IsPrefix(p, r)}}

Then(r, Op(_)) == IF r.ok THEN Op(r.fs) ELSE r

(***************************************************************************)
(* utils/validators.ts                                                     *)
(***************************************************************************)
\* the expression without its leading anchor: /[a-z0-9]+(-[a-z0-9]+)*$/
validateName_Unanchored(name) ==
  Len(name) > 0 /\ name[Len(name)] \in Lower \cup Digit

\* /^[a-z0-9]+(-[a-z0-9]+)*$/.test(name)
validateName(name) ==
  /\ Len(name) > 0
  /\ \A i \in 1..Len(name) : name[i] \in Lower \cup Digit \cup {"-"}
  /\ name[1] # "-" /\ name[Len(name)] # "-"
  /\ \A i \in 1..(Len(name) - 1) : ~(name[i] = "-" /\ name[i + 1] = "-")

(***************************************************************************)
(* utils/types.ts (module templates) and utils/file.ts                     *)
(***************************************************************************)
DEFAULT_MODULE_COMPONENTS == <<S_components, S_services, S_types, S_hooks, S_utils>>

TemplateNames == {"basic", "full", "api", "ui"}

MODULE_TEMPLATES(t) ==
  CASE t = "basic" -> <<S_components, S_services, S_types>>
    [] t = "full" -> <<S_components, S_services, S_types, S_hooks, S_utils, S_tests>>
    [] t = "api" -> <<S_services, S_types, S_controllers, S_middleware>>
    [] t = "ui" -> <<S_components, S_hooks, S_types, S_styles>>

ensureDirectoryExists(f, p) == ensureDir(f, p)

\* one line of a file: a comment, an export line or an opaque rendered text
Line(t, n) == [t |-> t, n |-> n]

\* renderTemplate: reads the stub named by the template; fails when it is missing
renderTemplate(templateName, missing) ==
  [ok |-> templateName \notin missing, text |-> <<Line("rendered", <<templateName>>)>>]

(***************************************************************************)
(* core/module-service.ts: ModuleService                                   *)
(***************************************************************************)
Default(o, d) == IF o = <<>> THEN d ELSE o[1]

Includes(content, line) == \E i \in 1..Len(content) : content[i] = line

Fail(out, f) == [out |-> out, fs |-> f, ret |-> {}]

Done(r) == [out |-> IF r.ok THEN "ok" ELSE "Error", fs |-> r.fs, ret |-> {}]

getDefaultComponents_IgnoreTemplate(template) == DEFAULT_MODULE_COMPONENTS

getDefaultComponents(template) ==
  IF template # <<>> /\ template[1] \in TemplateNames
  THEN MODULE_TEMPLATES(template[1])
  ELSE DEFAULT_MODULE_COMPONENTS

\* the module's path, or <<>> for null
findModulePath(f, cfg, moduleName) ==
  LET modulePath == Append(cfg.paths.modules, moduleName)
  IN IF pathExists(f, modulePath) THEN <<modulePath>> ELSE <<>>

RECURSIVE ensureEach(_, _, _)
ensureEach(f, base, names) ==
  IF names = <<>> THEN [ok |-> TRUE, fs |-> f]
  ELSE Then(ensureDirectoryExists(f, Append(base, Head(names))),
            LAMBDA g : ensureEach(g, base, Tail(names)))

createModuleDirectories(f, ms) ==
  ensureEach(f, ms.path,
             ms.components
               \o (IF ms.hasRouting THEN <<S_pages, S_routes>> ELSE <<>>)
               \o (IF ms.hasApi THEN <<S_api, S_controllers>> ELSE <<>>)
               \o (IF ms.hasTests THEN <<S_tests>> ELSE <<>>))

RECURSIVE writeComponentIndexes(_, _, _)
writeComponentIndexes(f, base, names) ==
  IF names = <<>> THEN [ok |-> TRUE, fs |-> f]
  ELSE Then(writeFile(f, base \o <<Head(names), S_index_ts>>, <<Line("comment", Head(names))>>),
            LAMBDA g : writeComponentIndexes(g, base, Tail(names)))

\* a variant that removes the module directory when a template cannot be rendered
createModuleFiles_Cleanup(f, cfg, ms, missing) ==
  IF ~renderTemplate("module/index", missing).ok
     \/ ~renderTemplate("common/module-readme", missing).ok
  THEN [ok |-> FALSE, fs |-> remove(f, ms.path)]
  ELSE Then(writeFile(f, Append(ms.path, S_index \o cfg.conventions.file_extensions.component),
                      renderTemplate("module/index", missing).text),
         LAMBDA g : Then(writeFile(g, Append(ms.path, S_README_md),
                                   renderTemplate("common/module-readme", missing).text),
                      LAMBDA h : writeComponentIndexes(h, ms.path, ms.components)))

createModuleFiles(f, cfg, ms, missing) ==
  LET indexContent == renderTemplate("module/index", missing)
      indexFile == S_index \o cfg.conventions.file_extensions.component
      readmeContent == renderTemplate("common/module-readme", missing)
  IN IF ~indexContent.ok THEN [ok |-> FALSE, fs |-> f]
     ELSE Then(writeFile(f, Append(ms.path, indexFile), indexContent.text),
            LAMBDA g : IF ~readmeContent.ok THEN [ok |-> FALSE, fs |-> g]
                       ELSE Then(writeFile(g, Append(ms.path, S_README_md), readmeContent.text),
                              LAMBDA h : writeComponentIndexes(h, ms.path, ms.components)))

createModulePackageJson(f, cfg, ms) ==
  writeFile(f, Append(ms.path, S_package_json), <<Line("json", ms.name)>>)

createTestFiles(f, cfg, ms, missing) ==
  LET testContent == renderTemplate("test", missing)
      testFile == ms.name \o cfg.conventions.file_extensions.test
  IN IF ~testContent.ok THEN [ok |-> FALSE, fs |-> f]
     ELSE writeFile(f, ms.path \o <<S_tests, testFile>>, testContent.text)

StructureOf(ms) ==
  [name |-> ms.name, path |-> ms.path, components |-> Range(ms.components),
   hasRouting |-> ms.hasRouting, hasApi |-> ms.hasApi, hasTests |-> ms.hasTests,
   isStandalone |-> ms.isStandalone, hasPackageJson |-> ms.hasPackageJson]

modulePathOf(cfg, o) ==
  IF o.path # <<>> THEN Append(o.path[1], o.name) ELSE Append(cfg.paths.modules, o.name)

\* the module record createModule builds from its options and the configuration
moduleStructureOf(cfg, o) ==
  [name |-> o.name, path |-> modulePathOf(cfg, o),
   components |-> IF o.components # <<>> THEN o.components[1]
                  ELSE getDefaultComponents(o.template),
   hasRouting |-> Default(o.routing, FALSE),
   hasApi |-> Default(o.api, FALSE),
   hasTests |-> Default(o.tests, cfg.features.testing),
   isStandalone |-> Default(o.standalone, cfg.features.standalone_modules),
   hasPackageJson |-> Default(o.packageJson, cfg.features.package_per_module)]

\* a placeholder of the source: it writes nothing
createRoutingFiles(f, ms) == [ok |-> TRUE, fs |-> f]

\* a placeholder of the source: it writes nothing
createApiFiles(f, ms) == [ok |-> TRUE, fs |-> f]

\* createModule from the creation of the module directory on
materialize(f, cfg, ms, missing) ==
  LET r == Then(ensureDirectoryExists(f, ms.path),
             LAMBDA g1 : Then(createModuleDirectories(g1, ms),
               LAMBDA g2 : Then(createModuleFiles(g2, cfg, ms, missing),
                 LAMBDA g3 : Then(IF ms.hasPackageJson THEN createModulePackageJson(g3, cfg, ms)
                                  ELSE [ok |-> TRUE, fs |-> g3],
                   LAMBDA g4 : Then(IF ms.hasRouting /\ cfg.framework.type # "backend"
                                    THEN createRoutingFiles(g4, ms)
                                    ELSE [ok |-> TRUE, fs |-> g4],
                     LAMBDA g5 : Then(IF ms.hasApi /\ cfg.framework.features.api
                                      THEN createApiFiles(g5, ms)
                                      ELSE [ok |-> TRUE, fs |-> g5],
                       LAMBDA g6 : IF ms.hasTests THEN createTestFiles(g6, cfg, ms, missing)
                                   ELSE [ok |-> TRUE, fs |-> g6]))))))
  IN [out |-> IF r.ok THEN "ok" ELSE "Error", fs |-> r.fs,
      ret |-> IF r.ok THEN {StructureOf(ms)} ELSE {}]

createModule_NoExistsCheck(f, cfg, o, missing) ==
  IF ~validateName(o.name) THEN Fail("InvalidName", f)
  ELSE materialize(f, cfg, moduleStructureOf(cfg, o), missing)

createModule(f, cfg, o, missing) ==
  IF ~validateName(o.name) THEN Fail("InvalidName", f)
  ELSE IF pathExists(f, modulePathOf(cfg, o)) THEN Fail("AlreadyExists", f)
  ELSE materialize(f, cfg, moduleStructureOf(cfg, o), missing)

\* render one template and write the text to one file
renderTo(f, templateName, missing, p) ==
  LET content == renderTemplate(templateName, missing)
  IN IF ~content.ok THEN [ok |-> FALSE, fs |-> f] ELSE writeFile(f, p, content.text)

updateComponentIndex(f, componentDir, componentName) ==
  LET indexPath == Append(componentDir, S_index_ts)
      exportLine == Line("export", componentName)
  IN IF pathExists(f, indexPath)
     THEN IF IsDir(f, indexPath) THEN [ok |-> FALSE, fs |-> f]
          ELSE IF ~Includes(f[indexPath].content, exportLine)
               THEN appendFile(f, indexPath, <<exportLine>>)
               ELSE [ok |-> TRUE, fs |-> f]
     ELSE writeFile(f, indexPath, <<exportLine>>)

updateServicesIndex(f, servicesDir, serviceName) ==
  LET indexPath == Append(servicesDir, S_index_ts)
      exportLine == Line("export", serviceName)
  IN IF pathExists(f, indexPath)
     THEN IF IsDir(f, indexPath) THEN [ok |-> FALSE, fs |-> f]
          ELSE IF ~Includes(f[indexPath].content, exportLine)
               THEN appendFile(f, indexPath, <<exportLine>>)
               ELSE [ok |-> TRUE, fs |-> f]
     ELSE writeFile(f, indexPath, <<exportLine>>)

updateTypesIndex(f, typesDir, typeName) ==
  LET indexPath == Append(typesDir, S_index_ts)
      exportLine == Line("export", typeName)
  IN IF pathExists(f, indexPath)
     THEN IF IsDir(f, indexPath) THEN [ok |-> FALSE, fs |-> f]
          ELSE IF ~Includes(f[indexPath].content, exportLine)
               THEN appendFile(f, indexPath, <<exportLine>>)
               ELSE [ok |-> TRUE, fs |-> f]
     ELSE writeFile(f, indexPath, <<exportLine>>)

createComponentFile(f, cfg, name, componentDir, missing) ==
  renderTo(f, "component", missing,
           Append(componentDir, name \o cfg.conventions.file_extensions.component))

createStoryFile(f, name, componentDir, missing) ==
  renderTo(f, "common/story", missing, Append(componentDir, name \o Ext_stories_tsx))

createComponentTestFile(f, cfg, name, componentDir, missing) ==
  renderTo(f, "test", missing, Append(componentDir, name \o cfg.conventions.file_extensions.test))

createServiceTestFile(f, cfg, serviceName, servicesDir, missing) ==
  renderTo(f, "test", missing,
           Append(servicesDir, serviceName \o cfg.conventions.file_extensions.test))

createComponent(f, cfg, o, missing) ==
  LET found == findModulePath(f, cfg, o.moduleName)
      componentDir == Append(found[1], S_components)
  IN IF ~validateName(o.name) THEN Fail("InvalidName", f)
     ELSE IF found = <<>> THEN Fail("NotFound", f)
     ELSE Done(Then(ensureDirectoryExists(f, componentDir),
            LAMBDA g1 : Then(createComponentFile(g1, cfg, o.name, componentDir, missing),
              LAMBDA g2 : Then(IF o.story THEN createStoryFile(g2, o.name, componentDir, missing)
                               ELSE [ok |-> TRUE, fs |-> g2],
                LAMBDA g3 : Then(IF o.test
                                 THEN createComponentTestFile(g3, cfg, o.name, componentDir, missing)
                                 ELSE [ok |-> TRUE, fs |-> g3],
                  LAMBDA g4 : updateComponentIndex(g4, componentDir, o.name))))))

createService(f, cfg, moduleName, serviceName, missing) ==
  LET found == findModulePath(f, cfg, moduleName)
      servicesDir == Append(found[1], S_services)
      fileName == serviceName \o cfg.conventions.file_extensions.service
  IN IF ~validateName(serviceName) THEN Fail("InvalidName", f)
     ELSE IF found = <<>> THEN Fail("NotFound", f)
     ELSE Done(Then(ensureDirectoryExists(f, servicesDir),
            LAMBDA g1 : Then(renderTo(g1, "service", missing, Append(servicesDir, fileName)),
              LAMBDA g2 : Then(IF cfg.features.testing
                               THEN createServiceTestFile(g2, cfg, serviceName, servicesDir, missing)
                               ELSE [ok |-> TRUE, fs |-> g2],
                LAMBDA g3 : updateServicesIndex(g3, servicesDir, serviceName)))))

createType(f, cfg, o, missing) ==
  LET found == findModulePath(f, cfg, o.moduleName)
      typesDir == Append(found[1], S_types)
      fileName == o.name \o cfg.conventions.file_extensions.service
  IN IF ~validateName(o.name) THEN Fail("InvalidName", f)
     ELSE IF found = <<>> THEN Fail("NotFound", f)
     ELSE Done(Then(ensureDirectoryExists(f, typesDir),
            LAMBDA g1 : Then(renderTo(g1, "type", missing, Append(typesDir, fileName)),
              LAMBDA g2 : updateTypesIndex(g2, typesDir, o.name))))

createTest(f, cfg, o, missing) ==
  LET found == findModulePath(f, cfg, o.moduleName)
      testsDir == Append(found[1], S_tests)
      fileName == o.name \o cfg.conventions.file_extensions.test
  IN IF found = <<>> THEN Fail("NotFound", f)
     ELSE Done(Then(ensureDirectoryExists(f, testsDir),
            LAMBDA g1 : renderTo(g1, "test", missing, Append(testsDir, fileName))))

createAPI(f, cfg, o, missing) ==
  LET found == findModulePath(f, cfg, o.moduleName)
      apiDir == Append(found[1], S_api)
      fileName == o.name \o cfg.conventions.file_extensions.service
  IN IF ~validateName(o.name) THEN Fail("InvalidName", f)
     ELSE IF found = <<>> THEN Fail("NotFound", f)
     ELSE Done(Then(ensureDirectoryExists(f, apiDir),
            LAMBDA g1 : renderTo(g1, "api", missing, Append(apiDir, fileName))))

deleteModule_KeepUnlessForced(f, cfg, name, force) ==
  LET found == findModulePath(f, cfg, name)
  IN IF found = <<>> THEN Fail("NotFound", f)
     ELSE [out |-> "ok", fs |-> IF force THEN remove(f, found[1]) ELSE f, ret |-> {}]

deleteModule(f, cfg, name, force) ==
  LET found == findModulePath(f, cfg, name)
  IN IF found = <<>> THEN Fail("NotFound", f)
     ELSE [out |-> "ok", fs |-> remove(f, found[1]), ret |-> {}]

analyzeModule_KeepHidden(f, name, modulePath) ==
  LET components == {c \in readdir(f, modulePath) : IsDir(f, Append(modulePath, c))}
      hasPackageJson == pathExists(f, Append(modulePath, S_package_json))
  IN [name |-> name, path |-> modulePath, components |-> components,
      hasRouting |-> S_pages \in components \/ S_routes \in components,
      hasApi |-> S_api \in components \/ S_controllers \in components,
      hasTests |-> S_tests \in components \/ S_utests \in components,
      isStandalone |-> hasPackageJson, hasPackageJson |-> hasPackageJson]

\* the record for one module directory, derived from what is on disk
analyzeModule(f, name, modulePath) ==
  LET components == {c \in readdir(f, modulePath) :
                       IsDir(f, Append(modulePath, c)) /\ c[1] # "."}
      hasPackageJson == pathExists(f, Append(modulePath, S_package_json))
  IN [name |-> name, path |-> modulePath, components |-> components,
      hasRouting |-> S_pages \in components \/ S_routes \in components,
      hasApi |-> S_api \in components \/ S_controllers \in components,
      hasTests |-> S_tests \in components \/ S_utests \in components,
      isStandalone |-> hasPackageJson, hasPackageJson |-> hasPackageJson]

listModules(f, cfg) ==
  LET modulesPath == cfg.paths.modules
  IN IF ~pathExists(f, modulesPath) THEN [out |-> "ok", fs |-> f, ret |-> {}]
     ELSE IF ~IsDir(f, modulesPath) THEN Fail("Error", f)
     ELSE [out |-> "ok", fs |-> f,
           ret |-> {analyzeModule(f, n, Append(modulesPath, n)) :
                      n \in {e \in readdir(f, modulesPath) : IsDir(f, Append(modulesPath, e))}}]

(***************************************************************************)
(* The inputs of the module service.                                       *)
(***************************************************************************)
\* two configurations as initializeConfig builds them from FRAMEWORK_CONFIGS
ReactConfig ==
  [framework |-> [name |-> "React", type |-> "frontend", features |-> [api |-> FALSE]],
   paths |-> [modules |-> <<S_modules>>],
   features |-> [testing |-> FALSE, standalone_modules |-> FALSE, package_per_module |-> FALSE],
   conventions |-> [file_extensions |->
                      [component |-> Ext_tsx, service |-> Ext_ts, test |-> Ext_test_ts]]]

NestConfig ==
  [framework |-> [name |-> "Nest.js", type |-> "backend", features |-> [api |-> TRUE]],
   paths |-> [modules |-> <<S_modules>>],
   features |-> [testing |-> TRUE, standalone_modules |-> FALSE, package_per_module |-> TRUE],
   conventions |-> [file_extensions |->
                      [component |-> Ext_ts, service |-> Ext_ts, test |-> Ext_spec_ts]]]

Configs == {ReactConfig, NestConfig}

N_m1 == <<"m","1">>
N_m2 == <<"m","-","2">>
N_Bad == <<"M","_","x">>
N_x == <<"x">>
N_BadEntity == <<"X">>

ModuleNames == {N_m1, N_m2, N_Bad}

\* the module names the entity operations are called with
TargetModules == {N_m1, N_m2}

EntityNames == {N_x, S_index, N_BadEntity}

NoOptions ==
  [path |-> <<>>, components |-> <<>>, template |-> <<>>, routing |-> <<>>, api |-> <<>>,
   tests |-> <<>>, standalone |-> <<>>, packageJson |-> <<>>]

\* the option objects createModule is called with (the name is added by the call)
ModuleOptions ==
  {[NoOptions EXCEPT !.template = <<t>>] : t \in TemplateNames \cup {"legacy"}}
    \cup {NoOptions,
          [NoOptions EXCEPT !.components = <<<<S_services>>>>, !.routing = <<TRUE>>,
                            !.api = <<TRUE>>, !.tests = <<TRUE>>, !.packageJson = <<TRUE>>],
          [NoOptions EXCEPT !.path = <<<<S_features>>>>, !.template = <<"basic">>]}

WithName(o, n) ==
  [name |-> n, path |-> o.path, components |-> o.components, template |-> o.template,
   routing |-> o.routing, api |-> o.api, tests |-> o.tests, standalone |-> o.standalone,
   packageJson |-> o.packageJson]

\* the stubs missing from the stubs directory during one call
MissingStubs == {{}, {"common/module-readme", "test"}}

\* what the user puts into the modules directory by hand
ManualDirs == {<<S_modules, N_Bad>>, <<S_modules, N_m1, S_git>>, <<S_modules, N_m1, S_routes>>}

ManualFiles == {<<S_modules, N_m2>>, <<S_modules, N_m1, S_package_json>>}

\* a module directory copied in by hand: a test folder, a hidden folder and a manifest
CopiedModule(f, p) ==
  Then(ensureDir(f, Append(p, S_utests)),
    LAMBDA g1 : Then(ensureDir(g1, Append(p, S_git)),
      LAMBDA g2 : writeFile(g2, Append(p, S_package_json), <<Line("text", <<"manual">>)>>)))

InitialDisk ==
  [p \in {<<>>, <<S_modules>>, <<S_config_yml>>} |->
     IF p = <<S_config_yml>> THEN FileNode(<<Line("yaml", <<"config">>)>>) ELSE DirNode]

(***************************************************************************)
(* The state machine of the module service: one action per public method,  *)
(* and the user's manual changes of the disk.                              *)
(***************************************************************************)
NoCall == [op |-> "none", arg |-> <<>>, out |-> "ok", ret |-> {}]

Returns(op, arg, r) ==
  /\ fs' = r.fs
  /\ last' = [op |-> op, arg |-> arg, out |-> r.out, ret |-> r.ret]
  /\ calls' = calls + 1

IndexDirOf(op) ==
  CASE op = "createComponent" -> S_components
    [] op = "createService" -> S_services
    [] op = "createType" -> S_types

\* the entities created so far by successful calls, per module and index directory
Remember(op, moduleName, name, r) ==
  created' = IF r.out = "ok" THEN created \cup {<<moduleName, IndexDirOf(op), name>>}
             ELSE created

\* a fresh project, or one where an earlier run created the module m1
ModuleInit ==
  /\ config \in Configs
  /\ fs \in {InitialDisk,
             createModule(InitialDisk, config,
                          WithName([NoOptions EXCEPT !.template = <<"basic">>], N_m1), {}).fs}
  /\ last = NoCall
  /\ calls = 0
  /\ created = {}
  /\ cache = <<>>
  /\ nextOid = 1
  /\ reads = 0
  /\ loaded = <<>>
  /\ FRAMEWORK_CONFIGS = InitialProfiles

CreateModule ==
  \E n \in ModuleNames, o \in ModuleOptions, missing \in MissingStubs :
    /\ calls < MaxCalls
    /\ Returns("createModule", WithName(o, n), createModule(fs, config, WithName(o, n), missing))
    /\ UNCHANGED <<config, FRAMEWORK_CONFIGS, created, cmVars>>

CreateComponent ==
  \E n \in EntityNames, m \in TargetModules, extras \in BOOLEAN, missing \in MissingStubs :
    LET o == [name |-> n, moduleName |-> m, story |-> extras, test |-> extras]
        r == createComponent(fs, config, o, missing)
    IN /\ calls < MaxCalls
       /\ Returns("createComponent", o, r)
       /\ Remember("createComponent", m, n, r)
       /\ UNCHANGED <<config, FRAMEWORK_CONFIGS, cmVars>>

CreateService ==
  \E n \in EntityNames, m \in TargetModules, missing \in MissingStubs :
    LET r == createService(fs, config, m, n, missing)
    IN /\ calls < MaxCalls
       /\ Returns("createService", [name |-> n, moduleName |-> m], r)
       /\ Remember("createService", m, n, r)
       /\ UNCHANGED <<config, FRAMEWORK_CONFIGS, cmVars>>

CreateType ==
  \E n \in EntityNames, m \in TargetModules, missing \in MissingStubs :
    LET o == [name |-> n, moduleName |-> m]
        r == createType(fs, config, o, missing)
    IN /\ calls < MaxCalls
       /\ Returns("createType", o, r)
       /\ Remember("createType", m, n, r)
       /\ UNCHANGED <<config, FRAMEWORK_CONFIGS, cmVars>>

CreateTest ==
  \E n \in EntityNames, m \in TargetModules, missing \in MissingStubs :
    LET o == [name |-> n, moduleName |-> m]
    IN /\ calls < MaxCalls
       /\ Returns("createTest", o, createTest(fs, config, o, missing))
       /\ UNCHANGED <<config, FRAMEWORK_CONFIGS, created, cmVars>>

CreateAPI ==
  \E n \in EntityNames, m \in TargetModules, missing \in MissingStubs :
    LET o == [name |-> n, moduleName |-> m]
    IN /\ calls < MaxCalls
       /\ Returns("createAPI", o, createAPI(fs, config, o, missing))
       /\ UNCHANGED <<config, FRAMEWORK_CONFIGS, created, cmVars>>

DeleteModule ==
  \E m \in ModuleNames, force \in BOOLEAN :
    LET r == deleteModule(fs, config, m, force)
    IN /\ calls < MaxCalls
       /\ Returns("deleteModule", [name |-> m, moduleName |-> m, force |-> force], r)
       /\ created' = IF r.out = "ok" THEN {c \in created : c[1] # m} ELSE created
       /\ UNCHANGED <<config, FRAMEWORK_CONFIGS, cmVars>>

ListModules ==
  /\ calls < MaxCalls
  /\ Returns("listModules", <<>>, listModules(fs, config))
  /\ UNCHANGED <<config, FRAMEWORK_CONFIGS, created, cmVars>>

ManualMkdir ==
  \E p \in ManualDirs :
    /\ calls < MaxCalls
    /\ ensureDir(fs, p).ok /\ ~pathExists(fs, p)
    /\ Returns("manual", p, Done(ensureDir(fs, p)))
    /\ UNCHANGED <<config, FRAMEWORK_CONFIGS, created, cmVars>>

ManualWriteFile ==
  \E p \in ManualFiles :
    /\ calls < MaxCalls
    /\ IsDir(fs, Parent(p)) /\ ~pathExists(fs, p)
    /\ Returns("manual", p, Done(writeFile(fs, p, <<Line("text", <<"manual">>)>>)))
    /\ UNCHANGED <<config, FRAMEWORK_CONFIGS, created, cmVars>>

ManualCopyModule ==
  \E n \in {N_m2, N_Bad} :
    /\ calls < MaxCalls
    /\ IsDir(fs, <<S_modules>>) /\ ~pathExists(fs, <<S_modules, n>>)
    /\ Returns("manual", <<S_modules, n>>, Done(CopiedModule(fs, <<S_modules, n>>)))
    /\ UNCHANGED <<config, FRAMEWORK_CONFIGS, created, cmVars>>

Next ==
  \/ CreateModule
  \/ CreateComponent
  \/ CreateService
  \/ CreateType
  \/ CreateTest
  \/ CreateAPI
  \/ DeleteModule
  \/ ListModules
  \/ ManualMkdir
  \/ ManualWriteFile
  \/ ManualCopyModule

Spec == ModuleInit /\ [][Next]_vars

(***************************************************************************)
(* Properties of the module service.                                       *)
(***************************************************************************)
IsCall(op) == calls' = calls + 1 /\ last'.op = op

Below(f, d) == [q \in {r \in DOMAIN f : IsPrefix(d, r)} |-> f[q]]

\* kebab-case as the specification words it: one or more lowercase alphanumeric
\* segments joined by single hyphens
RECURSIVE KebabFrom(_, _, _)
KebabFrom(s, i, segmentStarts) ==
  IF i > Len(s) THEN ~segmentStarts
  ELSE IF s[i] \in Lower \cup Digit THEN KebabFrom(s, i + 1, FALSE)
  ELSE IF s[i] = "-" /\ ~segmentStarts THEN KebabFrom(s, i + 1, TRUE)
  ELSE FALSE

IsKebabCase(s) == KebabFrom(s, 1, TRUE)

\* C1 as stated: whenever a directory exists at the resolved module path, createModule
\* with any name raises 'already exists' and leaves everything below that directory as
\* it was.
C1_AnyName ==
  [][(IsCall("createModule") /\ IsDir(fs, modulePathOf(config, last'.arg)))
       => (/\ last'.out = "AlreadyExists"
           /\ Below(fs', modulePathOf(config, last'.arg))
                = Below(fs, modulePathOf(config, last'.arg)))]_vars

\* C1 (amended): whenever a directory exists at the resolved module path, createModule
\* with a name that passes the kebab-case check raises 'already exists' and leaves
\* everything below that directory as it was.
C1_Exclusivity ==
  [][(/\ IsCall("createModule")
      /\ IsKebabCase(last'.arg.name)
      /\ IsDir(fs, modulePathOf(config, last'.arg)))
       => (/\ last'.out = "AlreadyExists"
           /\ Below(fs', modulePathOf(config, last'.arg))
                = Below(fs, modulePathOf(config, last'.arg)))]_vars

C1_Witness ==
  /\ last.op = "createModule" /\ last.out = "AlreadyExists"
  /\ IsDir(fs, modulePathOf(config, last.arg))
  /\ ~IsFile(fs, Append(modulePathOf(config, last.arg), S_README_md))

\* C2: createModule with a name that is not kebab-case raises 'Invalid module name'
\* and changes nothing on disk.
C2_InvalidNameNoMutation ==
  [][(IsCall("createModule") /\ ~IsKebabCase(last'.arg.name))
       => (last'.out = "InvalidName" /\ fs' = fs)]_vars

C2_Witness ==
  last.op = "createModule" /\ last.out = "InvalidName" /\ ~IsKebabCase(last.arg.name)

\* the subdirectory list the specification gives for a template name
ClaimedTemplateList(t) ==
  CASE t = "basic" -> {S_components, S_services, S_types}
    [] t = "full" -> {S_components, S_services, S_types, S_hooks, S_utils, S_tests}
    [] t = "api" -> {S_services, S_types, S_controllers, S_middleware}
    [] t = "ui" -> {S_components, S_hooks, S_types, S_styles}
    [] OTHER -> {S_components, S_services, S_types, S_hooks, S_utils}

TemplateCall ==
  /\ last.op = "createModule" /\ last.out = "ok"
  /\ last.arg.template # <<>> /\ last.arg.components = <<>>

C5_DeleteRemovesTree ==
  [][(IsCall("deleteModule")
        /\ IsDir(fs, Append(config.paths.modules, last'.arg.name)))
       => LET root == Append(config.paths.modules, last'.arg.name)
          IN /\ last'.out = "ok"
             /\ \A p \in DOMAIN fs' : ~IsPrefix(root, p)
             /\ \A p \in DOMAIN fs : ~IsPrefix(root, p) => (p \in DOMAIN fs' /\ fs'[p] = fs[p])
             /\ DOMAIN fs' \subseteq DOMAIN fs
             /\ config' = config]_vars

C5_Witness ==
  /\ last.op = "deleteModule" /\ last.out = "ok" /\ ~last.arg.force
  /\ ~pathExists(fs, Append(config.paths.modules, last.arg.name))
  /\ \E n \in ModuleNames : n # last.arg.name /\ IsDir(fs, Append(config.paths.modules, n))
  /\ IsFile(fs, <<S_config_yml>>)

ModuleTargetOps ==
  {"createComponent", "createService", "createType", "createTest", "createAPI", "deleteModule"}

\* C6 as stated: each operation on an existing module, called with a valid entity name
\* and a module name for which no directory exists under the modules path, raises
\* 'Module not found' and leaves the file system unchanged.
C6_NotFound ==
  [][(/\ calls' = calls + 1
      /\ last'.op \in ModuleTargetOps
      /\ IsKebabCase(last'.arg.name)
      /\ ~IsDir(fs, Append(config.paths.modules, last'.arg.moduleName)))
       => (last'.out = "NotFound" /\ fs' = fs)]_vars

ExportCount(content, name) ==
  Cardinality({i \in 1..Len(content) : content[i] = Line("export", name)})

\* C7 as stated: after any sequence of successful createComponent, createService and
\* createType calls on a module, the index.ts of the subdirectory holds exactly one
\* export line for each distinct entity name created there.
C7_OneExportPerEntity ==
  \A c \in created :
    LET indexPath == config.paths.modules \o <<c[1], c[2], S_index_ts>>
    IN IsFile(fs, indexPath) /\ ExportCount(fs[indexPath].content, c[3]) = 1

(***************************************************************************)
(* core/ai-service.ts: AIService.saveGeneratedCode                         *)
(***************************************************************************)
EndsWith(s, suffix) ==
  Len(suffix) <= Len(s) /\ SubSeq(s, Len(s) - Len(suffix) + 1, Len(s)) = suffix

\* what /\.(tsx?|jsx?)$/ matches at the end of the name: the extension, or <<>>
MatchedExtension(fileName) ==
  IF EndsWith(fileName, Ext_tsx) THEN Ext_tsx
  ELSE IF EndsWith(fileName, Ext_jsx) THEN Ext_jsx
  ELSE IF EndsWith(fileName, Ext_ts) THEN Ext_ts
  ELSE IF EndsWith(fileName, Ext_js) THEN Ext_js
  ELSE <<>>

WithoutExtension(fileName) ==
  SubSeq(fileName, 1, Len(fileName) - Len(MatchedExtension(fileName)))

\* fileName.replace(/(\.(tsx?|jsx?))$/, '.test$1'): $1 is the extension with its dot
testFileName(fileName) ==
  IF MatchedExtension(fileName) = <<>> THEN fileName
  ELSE WithoutExtension(fileName) \o Ext_test \o MatchedExtension(fileName)

\* fileName.replace(/(\.(tsx?|jsx?))$/, '.md')
docFileName(fileName) ==
  IF MatchedExtension(fileName) = <<>> THEN fileName
  ELSE WithoutExtension(fileName) \o Ext_md

\* fileName.replace(/\.(tsx?|jsx?)$/, '.test$1'): $1 is the extension without its dot
dryRunTestFileName(fileName) ==
  IF MatchedExtension(fileName) = <<>> THEN fileName
  ELSE WithoutExtension(fileName) \o Ext_test \o Tail(MatchedExtension(fileName))

\* fileName.replace(/\.(tsx?|jsx?)$/, '.md')
dryRunDocFileName(fileName) ==
  IF MatchedExtension(fileName) = <<>> THEN fileName
  ELSE WithoutExtension(fileName) \o Ext_md

\* the real run: the paths written are returned as ret
writeGeneratedCode(f, response, targetPath, fileName) ==
  LET filePath == Append(targetPath, fileName)
      testFilePath == Append(targetPath, testFileName(fileName))
      docFilePath == Append(targetPath, docFileName(fileName))
      r == Then(ensureDir(f, targetPath),
             LAMBDA g1 : Then(writeFile(g1, filePath, response.code),
               LAMBDA g2 : Then(IF response.tests # <<>>
                                THEN writeFile(g2, testFilePath, response.tests)
                                ELSE [ok |-> TRUE, fs |-> g2],
                 LAMBDA g3 : IF response.documentation # <<>>
                             THEN writeFile(g3, docFilePath, response.documentation)
                             ELSE [ok |-> TRUE, fs |-> g3])))
  IN [out |-> IF r.ok THEN "ok" ELSE "Error", fs |-> r.fs,
      ret |-> IF ~r.ok THEN {}
              ELSE {filePath}
                     \cup (IF response.tests # <<>> THEN {testFilePath} ELSE {})
                     \cup (IF response.documentation # <<>> THEN {docFilePath} ELSE {})]

saveGeneratedCode_IgnoreDryRun(f, response, targetPath, fileName, dryRun) ==
  writeGeneratedCode(f, response, targetPath, fileName)

\* the dry run only logs; the paths logged are returned as ret
saveGeneratedCode(f, response, targetPath, fileName, dryRun) ==
  IF dryRun
  THEN [out |-> "ok", fs |-> f,
        ret |-> {Append(targetPath, fileName)}
                  \cup (IF response.tests # <<>>
                        THEN {Append(targetPath, dryRunTestFileName(fileName))} ELSE {})
                  \cup (IF response.documentation # <<>>
                        THEN {Append(targetPath, dryRunDocFileName(fileName))} ELSE {})]
  ELSE writeGeneratedCode(f, response, targetPath, fileName)

(***************************************************************************)
(* The state machine of the generated-artifact writer.                     *)
(***************************************************************************)
N_widget == <<"w">>

FileNames ==
  {N_widget \o e : e \in {Ext_ts, Ext_tsx, Ext_js, Ext_jsx, Ext_vue, Ext_spec_ts}}

\* an artifact: the code, with or without tests and documentation
Responses ==
  {[code |-> <<Line("code", <<"c">>)>>, tests |-> t, documentation |-> d] :
     t \in {<<>>, <<Line("tests", <<"t">>)>>},
     d \in {<<>>, <<Line("docs", <<"d">>)>>}}

TargetPaths == {<<S_generated>>, <<S_modules>>}

WriterInit ==
  /\ fs = InitialDisk
  /\ config = ReactConfig
  /\ last = NoCall
  /\ calls = 0
  /\ created = {}
  /\ cache = <<>>
  /\ nextOid = 1
  /\ reads = 0
  /\ loaded = <<>>
  /\ FRAMEWORK_CONFIGS = InitialProfiles

SaveGeneratedCode ==
  \E response \in Responses, targetPath \in TargetPaths, fileName \in FileNames,
     dryRun \in BOOLEAN :
    /\ calls < MaxCalls
    /\ Returns("saveGeneratedCode",
               [response |-> response, targetPath |-> targetPath, fileName |-> fileName,
                dryRun |-> dryRun],
               saveGeneratedCode(fs, response, targetPath, fileName, dryRun))
    /\ UNCHANGED <<config, FRAMEWORK_CONFIGS, created, cmVars>>

WriterNext == SaveGeneratedCode

WriterSpec == WriterInit /\ [][WriterNext]_vars

\* C8: saveGeneratedCode with dryRun = true creates and changes nothing on disk.
C8_DryRunWritesNothing ==
  [][(IsCall("saveGeneratedCode") /\ last'.arg.dryRun) => fs' = fs]_vars

C8_Witness ==
  /\ last.op = "saveGeneratedCode" /\ last.arg.dryRun /\ last.out = "ok"
  /\ last.arg.response.tests # <<>> /\ last.arg.response.documentation # <<>>
  /\ ~pathExists(fs, last.arg.targetPath)

LastDot(s) == CHOOSE i \in 1..Len(s) : s[i] = "." /\ \A j \in (i + 1)..Len(s) : s[j] # "."

\* C9 as stated: a real run leaves the main file holding the code and, when tests and
\* documentation are present, a test file (.test inserted before the extension) and a
\* doc file (extension replaced by .md), both distinct from the main file.
C9_ThreeDistinctFiles ==
  (last.op = "saveGeneratedCode" /\ ~last.arg.dryRun /\ last.out = "ok") =>
    LET name == last.arg.fileName
        dir == last.arg.targetPath
        stem == SubSeq(name, 1, LastDot(name) - 1)
        ext == SubSeq(name, LastDot(name), Len(name))
        main == Append(dir, name)
        test == Append(dir, stem \o Ext_test \o ext)
        doc == Append(dir, stem \o Ext_md)
    IN /\ IsFile(fs, main) /\ fs[main].content = last.arg.response.code
       /\ last.arg.response.tests # <<>> =>
            (test # main /\ IsFile(fs, test) /\ fs[test].content = last.arg.response.tests)
       /\ last.arg.response.documentation # <<>> =>
            (doc # main /\ IsFile(fs, doc)
               /\ fs[doc].content = last.arg.response.documentation)

(***************************************************************************)
(* core/config-manager.ts: ConfigManager                                   *)
(*                                                                         *)
(* A configuration value is a tagged tree: an object (a function from keys *)
(* to values), an array, a scalar or null.  A configuration object is a    *)
(* value with an identity; the cache holds <<object>>, or <<>> for null.   *)
(* A scalar is a string (a sequence of characters), a boolean or a number. *)
(* A config file holds one line, the text of a value in YAML or JSON, or   *)
(* text that does not parse; yaml.parse of an empty file is null.          *)
(***************************************************************************)
Obj(f) == [t |-> "obj", v |-> f]

Arr(a) == [t |-> "arr", v |-> a]

Str(x) == [t |-> "str", v |-> x]

Null == [t |-> "null", v |-> <<>>]

Bool(b) == [t |-> "bool", v |-> b]

Num(n) == [t |-> "num", v |-> n]

CONFIG_FILE_NAME == S_config_yml

LEGACY_CONFIG_NAMES == <<S_legacy_yml, S_legacy_json>>

configPath == <<CONFIG_FILE_NAME>>

\* yaml.parse: YAML is a superset of JSON; an empty document is null
yamlParse(content) ==
  IF content = <<>> THEN [ok |-> TRUE, val |-> Null]
  ELSE IF content[1].t \in {"yaml", "json"} THEN [ok |-> TRUE, val |-> content[1].n[1]]
  ELSE [ok |-> FALSE, val |-> Null]

jsonParse(content) ==
  IF content # <<>> /\ content[1].t = "json" THEN [ok |-> TRUE, val |-> content[1].n[1]]
  ELSE [ok |-> FALSE, val |-> Null]

yamlStringify(val) == <<Line("yaml", <<val>>)>>

\* a reference to a new object holding val, or <<>> when val is null
NewObject(val, oid) == IF val = Null THEN <<>> ELSE <<[oid |-> oid, val |-> val]>>

ValueOf(ref) == IF ref = <<>> THEN Null ELSE ref[1].val

\* JavaScript truthiness: null, the empty string, false and 0 are falsy
Truthy(val) == val # Null /\ val # Str(<<>>) /\ val # Bool(FALSE) /\ val # Num(0)

\* { ...target }: the own enumerable properties; a string and an array have their
\* indices "0", "1", ... as keys, null has none
Spread(target) ==
  CASE target.t = "obj" -> target.v
    [] target.t = "arr" -> [k \in {ToString(i - 1) : i \in 1..Len(target.v)} |->
                              target.v[CHOOSE i \in 1..Len(target.v) : ToString(i - 1) = k]]
    [] target.t = "str" -> [k \in {ToString(i - 1) : i \in 1..Len(target.v)} |->
                              Str(<<target.v[CHOOSE i \in 1..Len(target.v) : ToString(i - 1) = k]>>)]
    [] OTHER -> <<>>

\* { ...a, ...b }
Overlay(a, b) ==
  [k \in DOMAIN Spread(a) \cup DOMAIN Spread(b) |->
     IF k \in DOMAIN Spread(b) THEN Spread(b)[k] ELSE Spread(a)[k]]

RECURSIVE deepMerge(_, _)
deepMerge(target, source) ==
  LET tf == Spread(target)
      sf == source.v
  IN Obj([k \in DOMAIN tf \cup DOMAIN sf |->
            IF k \notin DOMAIN sf THEN tf[k]
            ELSE IF sf[k].t = "obj"
                 THEN deepMerge(IF k \in DOMAIN tf /\ Truthy(tf[k]) THEN tf[k] ELSE Obj(<<>>),
                                sf[k])
                 ELSE sf[k]])

\* target[key] of a null target is a TypeError
deepMergeThrows(target, source) ==
  target = Null /\ \E k \in DOMAIN source.v : source.v[k].t = "obj"

saveConfig_NoWrite(f, ref, diskFails) == [ok |-> ~diskFails, fs |-> f]

\* fs.writeFile of the config file; diskFails is an I/O error of this write
saveConfig(f, ref, diskFails) ==
  LET w == IF diskFails THEN [ok |-> FALSE, fs |-> f]
           ELSE writeFile(f, configPath, yamlStringify(ValueOf(ref)))
  IN [ok |-> w.ok, fs |-> w.fs]

\* the legacy files in order; the parsed configuration is cached before it is saved.
\* removeFails is an I/O error of fs.remove; mid lists the disk after each mutation.
RECURSIVE loadLegacy(_, _, _, _, _, _, _, _)
loadLegacy(names, f, cached, oid, nreads, diskFails, removeFails, mid) ==
  IF names = <<>>
  THEN [out |-> "NoConfig", ret |-> <<>>, fs |-> f, cache |-> cached, nextOid |-> oid,
        reads |-> nreads, mid |-> mid]
  ELSE LET legacyPath == <<Head(names)>>
           parsed == IF EndsWith(Head(names), Ext_json) THEN jsonParse(f[legacyPath].content)
                     ELSE yamlParse(f[legacyPath].content)
           ref == NewObject(parsed.val, oid)
           saved == saveConfig(f, ref, diskFails)
       IN IF ~pathExists(f, legacyPath)
          THEN loadLegacy(Tail(names), f, cached, oid, nreads, diskFails, removeFails, mid)
          ELSE IF IsDir(f, legacyPath) \/ ~parsed.ok
          THEN loadLegacy(Tail(names), f, cached, oid, nreads + 1, diskFails, removeFails, mid)
          ELSE IF ~saved.ok
          THEN loadLegacy(Tail(names), f, ref, oid + 1, nreads + 1, diskFails, removeFails, mid)
          ELSE IF removeFails
          THEN loadLegacy(Tail(names), saved.fs, ref, oid + 1, nreads + 1, diskFails,
                          removeFails, Append(mid, saved.fs))
          ELSE [out |-> "ok", ret |-> ref, fs |-> remove(saved.fs, legacyPath),
                cache |-> ref, nextOid |-> oid + 1, reads |-> nreads + 1,
                mid |-> mid \o <<saved.fs, remove(saved.fs, legacyPath)>>]

\* the branch of loadConfig for an existing current file
readCurrent(f, cached, oid, nreads) ==
  IF IsFile(f, configPath) /\ yamlParse(f[configPath].content).ok
  THEN LET ref == NewObject(yamlParse(f[configPath].content).val, oid)
       IN [out |-> "ok", ret |-> ref, fs |-> f, cache |-> ref, nextOid |-> oid + 1,
           reads |-> nreads + 1, mid |-> <<>>]
  ELSE [out |-> "InvalidConfig", ret |-> <<>>, fs |-> f, cache |-> cached,
        nextOid |-> oid, reads |-> nreads + 1, mid |-> <<>>]

readConfig_FallBack(f, cached, oid, nreads, diskFails, removeFails) ==
  IF pathExists(f, configPath) /\ readCurrent(f, cached, oid, nreads).out = "ok"
  THEN readCurrent(f, cached, oid, nreads)
  ELSE loadLegacy(LEGACY_CONFIG_NAMES, f, cached, oid, nreads, diskFails, removeFails, <<>>)

\* loadConfig after the test of the cache: the current file, else the legacy files
readConfig(f, cached, oid, nreads, diskFails, removeFails) ==
  IF pathExists(f, configPath)
  THEN readCurrent(f, cached, oid, nreads)
  ELSE loadLegacy(LEGACY_CONFIG_NAMES, f, cached, oid, nreads, diskFails, removeFails, <<>>)

loadConfig_NoCache(f, cached, oid, nreads, diskFails, removeFails) ==
  readConfig(f, cached, oid, nreads, diskFails, removeFails)

loadConfig(f, cached, oid, nreads, diskFails, removeFails) ==
  IF cached # <<>>
  THEN [out |-> "ok", ret |-> cached, fs |-> f, cache |-> cached, nextOid |-> oid,
        reads |-> nreads, mid |-> <<>>]
  ELSE readConfig(f, cached, oid, nreads, diskFails, removeFails)

updateConfig(f, cached, oid, nreads, updates, diskFails, removeFails) ==
  LET l == loadConfig(f, cached, oid, nreads, diskFails, removeFails)
      updatedConfig == NewObject(deepMerge(ValueOf(l.ret), updates), l.nextOid)
      saved == saveConfig(l.fs, updatedConfig, diskFails)
  IN IF l.out # "ok" THEN l
     ELSE IF deepMergeThrows(ValueOf(l.ret), updates)
     THEN [out |-> "TypeError", ret |-> <<>>, fs |-> l.fs, cache |-> l.cache,
           nextOid |-> l.nextOid, reads |-> l.reads, mid |-> l.mid]
     ELSE IF ~saved.ok
     THEN [out |-> "Error", ret |-> <<>>, fs |-> l.fs, cache |-> l.cache,
           nextOid |-> l.nextOid + 1, reads |-> l.reads, mid |-> l.mid]
     ELSE [out |-> "ok", ret |-> updatedConfig, fs |-> saved.fs, cache |-> updatedConfig,
           nextOid |-> l.nextOid + 1, reads |-> l.reads, mid |-> Append(l.mid, saved.fs)]

\* the constructor fixes configPath; getConfigPath looks at nothing on disk
getConfigPath(f) == configPath

\* the root directory the ConfigManager is constructed on
RootDir == Str(<<"/", "p">>)

\* obj[key]: undefined (Null here) when the value has no such property
Prop(val, key) == IF key \in DOMAIN Spread(val) THEN Spread(val)[key] ELSE Null

\* obj[a]?.[b]
OptProp(val, a, b) == IF Prop(val, a) = Null THEN Null ELSE Prop(Prop(val, a), b)

\* path.join(rootDir, modules) as a path of the model: RootDir is the project root, any
\* other directory holds nothing
joinRoot(rootDir, modules) ==
  IF rootDir = RootDir THEN <<modules.v>> ELSE <<rootDir.v, modules.v>>

\* validateConfig on the configuration to validate; "TypeError" stands for the throw of
\* a property access on null and of path.join on a value that is not a string
validateValue(f, val) ==
  IF val = Null THEN [out |-> "TypeError", ret |-> <<>>]
  ELSE IF ~Truthy(OptProp(val, "framework", "name")) THEN [out |-> "ok", ret |-> <<FALSE>>]
  ELSE IF ~Truthy(OptProp(val, "project", "name")) THEN [out |-> "ok", ret |-> <<FALSE>>]
  ELSE IF ~Truthy(OptProp(val, "paths", "modules")) THEN [out |-> "ok", ret |-> <<FALSE>>]
  ELSE LET rootDir == Prop(Prop(val, "project"), "rootDir")
           modules == Prop(Prop(val, "paths"), "modules")
       IN IF rootDir.t # "str" \/ modules.t # "str" THEN [out |-> "TypeError", ret |-> <<>>]
          ELSE [out |-> "ok", ret |-> <<pathExists(f, joinRoot(rootDir, modules))>>]

\* given is <<>> when validateConfig is called without an argument
validateConfig(f, cached, oid, nreads, given, diskFails, removeFails) ==
  LET l == IF given # <<>> /\ Truthy(given[1])
           THEN [out |-> "ok", ret |-> <<[oid |-> 0, val |-> given[1]]>>, fs |-> f,
                 cache |-> cached, nextOid |-> oid, reads |-> nreads, mid |-> <<>>]
           ELSE loadConfig(f, cached, oid, nreads, diskFails, removeFails)
      v == validateValue(l.fs, ValueOf(l.ret))
  IN IF l.out # "ok" THEN l
     ELSE [out |-> v.out, ret |-> v.ret, fs |-> l.fs, cache |-> l.cache,
           nextOid |-> l.nextOid, reads |-> l.reads, mid |-> l.mid]

S_src == <<"s","r","c">>
S_shared == <<"s","h","a","r","e","d">>
S_app == <<"a","p","p">>
S_test == <<"t","e","s","t">>
S_component == <<"c","o","m","p","o","n","e","n","t">>
S_service == <<"s","e","r","v","i","c","e">>
S_module == <<"m","o","d","u","l","e">>
S_my_project == <<"m","y","-","p","r","o","j","e","c","t">>
S_kebab_case == <<"k","e","b","a","b","-","c","a","s","e">>
S_camelCase == <<"c","a","m","e","l","C","a","s","e">>

Slash(a, b) == a \o <<"/">> \o b

DEFAULT_CONFIG ==
  Obj([version |-> Str(<<"2",".","0",".","0">>),
       features |-> Obj([typescript |-> Bool(TRUE), testing |-> Bool(TRUE),
                         standalone_modules |-> Bool(FALSE),
                         package_per_module |-> Bool(FALSE)]),
       conventions |-> Obj([naming |-> Str(S_kebab_case), file_extensions |-> Obj(<<>>)]),
       ai |-> Obj([enabled |-> Bool(FALSE)])])

\* FRAMEWORK_CONFIGS.next
NextProfile ==
  Obj([name |-> Str(<<"N","e","x","t",".","j","s">>),
       type |-> Str(<<"f","u","l","l","s","t","a","c","k">>),
       features |-> Obj([routing |-> Bool(TRUE), api |-> Bool(TRUE), ssr |-> Bool(TRUE),
                         typescript |-> Bool(TRUE), testing |-> Bool(TRUE)]),
       paths |-> Obj([src |-> Str(S_src), components |-> Str(Slash(S_src, S_components)),
                      pages |-> Str(Slash(S_src, S_app)),
                      api |-> Str(Slash(S_src, Slash(S_app, S_api))),
                      modules |-> Str(Slash(S_src, S_modules)),
                      shared |-> Str(Slash(S_src, S_shared)), tests |-> Str(S_utests)]),
       extensions |-> Obj([component |-> Str(Ext_tsx), page |-> Str(Ext_tsx),
                           api |-> Str(Ext_ts), service |-> Str(Ext_ts),
                           test |-> Str(Ext_test_ts)])])

\* FRAMEWORK_CONFIGS.nest
NestProfile ==
  Obj([name |-> Str(<<"N","e","s","t",".","j","s">>),
       type |-> Str(<<"b","a","c","k","e","n","d">>),
       features |-> Obj([routing |-> Bool(TRUE), api |-> Bool(TRUE), ssr |-> Bool(FALSE),
                         typescript |-> Bool(TRUE), testing |-> Bool(TRUE)]),
       paths |-> Obj([src |-> Str(S_src), components |-> Str(Slash(S_src, S_components)),
                      modules |-> Str(Slash(S_src, S_modules)),
                      shared |-> Str(Slash(S_src, S_shared)), tests |-> Str(S_test)]),
       extensions |-> Obj([component |-> Str(Ext_ts), page |-> Str(Ext_ts),
                           api |-> Str(Ext_ts), service |-> Str(Ext_ts),
                           test |-> Str(Ext_spec_ts)])])

\* an object literal: a property whose value is undefined is not written to the file
\* and is left out of the value
Defined(fields) == [k \in {x \in DOMAIN fields : fields[x] # Null} |-> fields[k]]

\* framework.name.toLowerCase().split('.')[0] + '/' + type
getDefaultTemplate(framework, type) ==
  LET name == MapChars(toLowerCase, Prop(framework, "name").v)
      dots == {i \in 1..Len(name) : name[i] = "."}
      frameworkKey == IF dots = {} THEN name
                      ELSE SubSeq(name, 1, (CHOOSE i \in dots : \A j \in dots : i <= j) - 1)
  IN Str(Slash(frameworkKey, type))

\* "JsonError" is the throw of fs.readJson on the manifest, "TypeError" the throw of
\* packageJson.name on null; the configuration is cached by saveConfig, after the write
initializeConfig(f, cached, oid, nreads, projectStructure, options, diskFails) ==
  LET framework == projectStructure.framework
      packageJsonPath == <<S_package_json>>
      hasManifest == pathExists(f, packageJsonPath)
      packageJson == jsonParse(f[packageJsonPath].content)
      projectName == IF hasManifest /\ Truthy(Prop(packageJson.val, "name"))
                     THEN Prop(packageJson.val, "name") ELSE Str(S_my_project)
      projectDescription == IF hasManifest /\ Truthy(Prop(packageJson.val, "description"))
                            THEN Prop(packageJson.val, "description") ELSE Str(<<>>)
      built ==
        Obj(Defined(
          [version |-> Prop(DEFAULT_CONFIG, "version"),
           framework |-> Obj(Defined([name |-> Prop(framework, "name"),
                                      type |-> Prop(framework, "type"),
                                      version |-> Prop(framework, "version"),
                                      features |-> Prop(framework, "features")])),
           project |-> Obj([name |-> projectName, description |-> projectDescription,
                            rootDir |-> RootDir,
                            packageManager |-> projectStructure.packageManager]),
           paths |-> Obj(Defined([modules |-> OptProp(framework, "paths", "modules"),
                                  shared |-> OptProp(framework, "paths", "shared"),
                                  tests |-> OptProp(framework, "paths", "tests")])),
           features |-> Obj(Overlay(Prop(DEFAULT_CONFIG, "features"),
                                    Obj([typescript |-> Bool(projectStructure.hasTypeScript),
                                         testing |-> Bool(projectStructure.hasTesting)]))),
           templates |-> Obj([component |-> getDefaultTemplate(framework, S_component),
                              service |-> getDefaultTemplate(framework, S_service),
                              test |-> getDefaultTemplate(framework, S_test),
                              module |-> getDefaultTemplate(framework, S_module)]),
           conventions |-> Obj(Defined(Overlay(Prop(DEFAULT_CONFIG, "conventions"),
                                 Obj([file_extensions |-> Prop(framework, "extensions")])))),
           ai |-> Prop(DEFAULT_CONFIG, "ai")]))
      ref == NewObject(Obj(Overlay(built, options)), oid)
      saved == saveConfig(f, ref, diskFails)
      thrown(out) == [out |-> out, ret |-> <<>>, fs |-> f, cache |-> cached, nextOid |-> oid,
                      reads |-> nreads, mid |-> <<>>]
  IN IF hasManifest /\ (IsDir(f, packageJsonPath) \/ ~packageJson.ok) THEN thrown("JsonError")
     ELSE IF hasManifest /\ packageJson.val = Null THEN thrown("TypeError")
     ELSE IF ~saved.ok THEN [thrown("Error") EXCEPT !.nextOid = oid + 1]
     ELSE [out |-> "ok", ret |-> ref, fs |-> saved.fs, cache |-> ref, nextOid |-> oid + 1,
           reads |-> nreads, mid |-> <<saved.fs>>]

(***************************************************************************)
(* commands/config.ts: setConfigValue, the config:set operation.  A key is *)
(* the sequence of its segments, key.split('.'); the value is the string   *)
(* the user typed.                                                         *)
(***************************************************************************)
RECURSIVE NumberOf(_)
NumberOf(value) ==
  IF value = <<>> THEN 0
  ELSE 10 * NumberOf(SubSeq(value, 1, Len(value) - 1))
         + (CHOOSE d \in 0..9 : ToString(d) = value[Len(value)])

\* 'true' and 'false' in any case become booleans, what Number() accepts becomes a
\* number (of the strings of the model: digits only, and '' which is 0)
parseValue(value) ==
  IF MapChars(toLowerCase, value) = <<"t","r","u","e">> THEN Bool(TRUE)
  ELSE IF MapChars(toLowerCase, value) = <<"f","a","l","s","e">> THEN Bool(FALSE)
  ELSE IF \A i \in 1..Len(value) : value[i] \in Digit THEN Num(NumberOf(value))
  ELSE Str(value)

Put(fields, key, val) == [k \in DOMAIN fields \cup {key} |-> IF k = key THEN val ELSE fields[k]]

\* the walk along the key and the assignment, on the object itself: val is the object
\* after the call, also when the call throws.  An assignment to a property of a string,
\* a number or a boolean is a TypeError of strict mode.
RECURSIVE setNested(_, _, _)
setNested(current, keys, parsedValue) ==
  IF Len(keys) = 1
  THEN IF keys[1] = "" THEN [out |-> "ConfigurationError", val |-> current]
       ELSE [out |-> "ok", val |-> Obj(Put(current.v, keys[1], parsedValue))]
  ELSE LET child == IF Truthy(Prop(current, keys[1])) THEN Prop(current, keys[1])
                    ELSE Obj(<<>>)
           inner == IF child.t = "obj" THEN setNested(child, Tail(keys), parsedValue)
                    ELSE [out |-> "TypeError", val |-> child]
       IN [out |-> inner.out, val |-> Obj(Put(current.v, keys[1], inner.val))]

\* the configuration loadConfig returns is the cached object; it is changed in place
\* and then handed to saveConfig
setConfigValue(f, cached, oid, nreads, key, value, diskFails) ==
  LET l == loadConfig(f, cached, oid, nreads, diskFails, FALSE)
      walked == setNested(ValueOf(l.ret), key, parseValue(value))
      changed == <<[oid |-> l.ret[1].oid, val |-> walked.val]>>
      saved == saveConfig(l.fs, changed, diskFails)
  IN IF l.out # "ok" THEN l
     ELSE IF l.ret = <<>> \/ ValueOf(l.ret).t # "obj"
     THEN [out |-> "TypeError", ret |-> <<>>, fs |-> l.fs, cache |-> l.cache,
           nextOid |-> l.nextOid, reads |-> l.reads, mid |-> l.mid]
     ELSE IF walked.out # "ok" \/ ~saved.ok
     THEN [out |-> IF walked.out # "ok" THEN walked.out ELSE "Error", ret |-> <<>>,
           fs |-> l.fs, cache |-> changed, nextOid |-> l.nextOid, reads |-> l.reads,
           mid |-> l.mid]
     ELSE [out |-> "ok", ret |-> <<>>, fs |-> saved.fs, cache |-> changed,
           nextOid |-> l.nextOid, reads |-> l.reads, mid |-> Append(l.mid, saved.fs)]

(***************************************************************************)
(* The state machine of one ConfigManager and the config files of its      *)
(* root directory, which the user may edit or remove at any time.          *)
(***************************************************************************)
ConfigA ==
  Obj([framework |-> Obj([name |-> Str(<<"r">>), features |-> Arr(<<Str(<<"a">>), Str(<<"b">>)>>)]),
       project |-> Obj([name |-> Str(<<"a">>), rootDir |-> RootDir]),
       paths |-> Obj([modules |-> Str(S_modules)])])

\* a hand-written file of an older shape: the framework is a plain string
ConfigB ==
  Obj([framework |-> Str(<<"n">>),
       project |-> Obj([name |-> Str(<<"b">>)]),
       paths |-> Obj([modules |-> Str(<<"s", "r", "c">>)])])

Updates ==
  {Obj([project |-> Obj([name |-> Str(<<"c">>)])]),
   Obj([ai |-> Obj([enabled |-> Str(<<"t">>)])]),
   Obj([framework |-> Obj([features |-> Arr(<<Str(<<"x">>)>>)])])}

\* a complete configuration but for project.rootDir
ConfigNoRoot ==
  Obj([framework |-> Obj([name |-> Str(<<"r">>)]),
       project |-> Obj([name |-> Str(<<"a">>)]),
       paths |-> Obj([modules |-> Str(S_modules)])])

ValidateArgs == {<<>>, <<ConfigA>>, <<ConfigB>>, <<ConfigNoRoot>>}

ConfigTexts ==
  {yamlStringify(ConfigA), <<Line("json", <<ConfigB>>)>>, <<Line("broken", <<>>)>>, <<>>}

ConfigFiles == {configPath, <<S_legacy_yml>>, <<S_legacy_json>>}

EmptyRoot == [p \in {<<>>} |-> DirNode]

\* project roots without and with the modules directory
Roots == {EmptyRoot, ensureDir(EmptyRoot, <<S_modules>>).fs}

\* what the detector hands to initializeConfig
NextStructure ==
  [framework |-> Obj([version |-> Str(<<"1">>)] @@ NextProfile.v),
   hasTypeScript |-> FALSE, hasTesting |-> TRUE, packageManager |-> Str(<<"n","p","m">>)]

NestStructure ==
  [framework |-> NestProfile,
   hasTypeScript |-> TRUE, hasTesting |-> FALSE, packageManager |-> Str(<<"y","a","r","n">>)]

\* the calls of initializeConfig: the overrides of the init command (none, each
\* section alone, the three together), and a call whose write fails
InitArgs ==
  LET features == [features |-> Obj([standalone_modules |-> Bool(TRUE),
                                     package_per_module |-> Bool(FALSE)])]
      conventions == [conventions |-> Obj([naming |-> Str(S_camelCase)])]
      paths == [paths |-> Obj([modules |-> Str(S_modules)])]
      call(s, o, d) == [projectStructure |-> s, options |-> Obj(o), diskFails |-> d]
  IN {call(NextStructure, <<>>, FALSE), call(NextStructure, features, FALSE),
      call(NestStructure, conventions, FALSE), call(NestStructure, paths, FALSE),
      call(NextStructure, features @@ conventions @@ paths, FALSE),
      call(NestStructure, features, TRUE)}

\* the calls of config:set, the last one with a write that fails
SetArgs ==
  {[key |-> <<"features", "typescript">>, value |-> <<"F","a","l","s","e">>, diskFails |-> FALSE],
   [key |-> <<"ai", "">>, value |-> <<"x">>, diskFails |-> FALSE],
   [key |-> <<"version">>, value |-> <<"3">>, diskFails |-> FALSE],
   [key |-> <<"ai", "model">>, value |-> <<"x">>, diskFails |-> TRUE]}

ConfigInit ==
  /\ \E root \in Roots :
       fs \in {root,
                writeFile(EmptyRoot, <<S_package_json>>,
                          <<Line("json", <<Obj([name |-> Str(<<"p">>)])>>)>>).fs,
                writeFile(EmptyRoot, <<S_misan_yml>>, yamlStringify(ConfigA)).fs,
                writeFile(root, configPath, yamlStringify(ConfigA)).fs,
                writeFile(root, <<S_legacy_json>>, <<Line("json", <<ConfigB>>)>>).fs}
  /\ config = ReactConfig
  /\ last = NoCall
  /\ calls = 0
  /\ created = {}
  /\ cache = <<>>
  /\ nextOid = 1
  /\ reads = 0
  /\ loaded = <<>>
  /\ FRAMEWORK_CONFIGS = InitialProfiles

\* the result of a ConfigManager method becomes the next state
ConfigReturns(op, arg, r) ==
  /\ fs' = r.fs
  /\ cache' = r.cache
  /\ nextOid' = r.nextOid
  /\ reads' = r.reads
  /\ last' = [op |-> op, arg |-> arg, out |-> r.out, ret |-> r.ret, mid |-> r.mid]
  /\ calls' = calls + 1
  /\ UNCHANGED <<config, FRAMEWORK_CONFIGS, created>>

LoadConfig ==
  \E diskFails \in BOOLEAN, removeFails \in BOOLEAN :
    LET r == loadConfig(fs, cache, nextOid, reads, diskFails, removeFails)
    IN /\ calls < MaxConfigCalls
       /\ ConfigReturns("loadConfig", [diskFails |-> diskFails, removeFails |-> removeFails], r)
       /\ loaded' = IF loaded = <<>> /\ r.out = "ok" THEN r.ret ELSE loaded

SaveConfig ==
  \E diskFails \in BOOLEAN :
    LET ref == NewObject(ConfigB, nextOid)
        saved == saveConfig(fs, ref, diskFails)
    IN /\ calls < MaxConfigCalls
       /\ ConfigReturns("saveConfig", [diskFails |-> diskFails],
                        [out |-> IF saved.ok THEN "ok" ELSE "Error", ret |-> <<>>,
                         fs |-> saved.fs, cache |-> IF saved.ok THEN ref ELSE cache,
                         nextOid |-> nextOid + 1, reads |-> reads,
                         mid |-> IF saved.ok THEN <<saved.fs>> ELSE <<>>])
       /\ UNCHANGED loaded

UpdateConfig ==
  \E updates \in Updates, diskFails \in BOOLEAN :
    /\ calls < MaxConfigCalls
    /\ ConfigReturns("updateConfig", [updates |-> updates, diskFails |-> diskFails],
                     updateConfig(fs, cache, nextOid, reads, updates, diskFails, FALSE))
    /\ UNCHANGED loaded

InitializeConfig ==
  \E a \in InitArgs :
    /\ calls < MaxConfigCalls
    /\ ConfigReturns("initializeConfig", a,
                     initializeConfig(fs, cache, nextOid, reads, a.projectStructure, a.options,
                                      a.diskFails))
    /\ UNCHANGED loaded

SetConfigValue ==
  \E a \in SetArgs :
    /\ calls < MaxConfigCalls
    /\ ConfigReturns("setConfigValue", a,
                     setConfigValue(fs, cache, nextOid, reads, a.key, a.value, a.diskFails))
    /\ UNCHANGED loaded

ValidateConfig ==
  \E arg \in ValidateArgs, diskFails \in BOOLEAN :
    /\ calls < MaxConfigCalls
    /\ ConfigReturns("validateConfig", [config |-> arg, diskFails |-> diskFails],
                     validateConfig(fs, cache, nextOid, reads, arg, diskFails, FALSE))
    /\ UNCHANGED loaded

GetConfigPath ==
  /\ calls < MaxConfigCalls
  /\ last' = [op |-> "getConfigPath", arg |-> <<>>, out |-> "ok", ret |-> <<getConfigPath(fs)>>,
              mid |-> <<>>]
  /\ calls' = calls + 1
  /\ UNCHANGED <<fs, config, FRAMEWORK_CONFIGS, created, cmVars>>

ManualEditConfig ==
  \E p \in ConfigFiles, text \in ConfigTexts :
    /\ calls < MaxConfigCalls
    /\ writeFile(fs, p, text).ok /\ writeFile(fs, p, text).fs # fs
    /\ fs' = writeFile(fs, p, text).fs
    /\ last' = [op |-> "manual", arg |-> p, out |-> "ok", ret |-> <<>>]
    /\ calls' = calls + 1
    /\ UNCHANGED <<config, FRAMEWORK_CONFIGS, created, cmVars>>

ManualRemoveConfig ==
  \E p \in ConfigFiles :
    /\ calls < MaxConfigCalls
    /\ pathExists(fs, p)
    /\ fs' = remove(fs, p)
    /\ last' = [op |-> "manual", arg |-> p, out |-> "ok", ret |-> <<>>]
    /\ calls' = calls + 1
    /\ UNCHANGED <<config, FRAMEWORK_CONFIGS, created, cmVars>>

ConfigNext ==
  \/ InitializeConfig
  \/ LoadConfig
  \/ SaveConfig
  \/ UpdateConfig
  \/ SetConfigValue
  \/ ValidateConfig
  \/ GetConfigPath
  \/ ManualEditConfig
  \/ ManualRemoveConfig

ConfigSpec == ConfigInit /\ [][ConfigNext]_vars

\* C10 as stated: once loadConfig has returned a configuration, every later loadConfig
\* call on the instance returns that same object without reading the file again.
C10_SameObjectForever ==
  [][(loaded # <<>> /\ IsCall("loadConfig"))
       => (last'.out = "ok" /\ last'.ret = loaded /\ reads' = reads)]_vars

\* C10 (amended): a configuration returned by loadConfig is cached; while the cache
\* holds a configuration, loadConfig returns the cached object without reading or
\* writing any file, whatever happened to the files; and the cached object is replaced
\* or changed only by a saveConfig or updateConfig call on the instance and by the
\* operations that end in saveConfig, initializeConfig and config:set.
C10_CachedObject ==
  [][/\ IsCall("loadConfig") =>
          /\ cache # <<>> => (/\ last'.out = "ok" /\ last'.ret = cache /\ cache' = cache
                              /\ reads' = reads /\ fs' = fs)
          /\ (last'.out = "ok" /\ last'.ret # <<>>) => cache' = last'.ret
     /\ (cache # <<>> /\ cache' # cache)
          => (/\ calls' = calls + 1
              /\ last'.op \in {"saveConfig", "updateConfig", "initializeConfig",
                                "setConfigValue"})]_vars

C10_Witness ==
  /\ last.op = "loadConfig" /\ last.out = "ok" /\ last.ret = loaded /\ loaded # <<>>
  /\ reads = 1 /\ calls = 3
  /\ ~pathExists(fs, configPath)

\* C11: when the current-format file exists but does not parse, loadConfig raises
\* 'Invalid configuration file', reads that file only, reads, migrates and removes no
\* legacy file, and leaves the cache empty, so that the next call reads the file again.
C11_ParseFailure ==
  [][/\ (/\ IsCall("loadConfig") /\ cache = <<>>
         /\ IsFile(fs, configPath) /\ ~yamlParse(fs[configPath].content).ok)
          => (/\ last'.out = "InvalidConfig" /\ last'.ret = <<>>
              /\ fs' = fs /\ last'.mid = <<>>
              /\ cache' = <<>>
              /\ reads' = reads + 1)
     /\ (/\ IsCall("loadConfig") /\ last.op = "loadConfig" /\ last.out = "InvalidConfig"
         /\ pathExists(fs, configPath))
          => (cache = <<>> /\ reads' = reads + 1)]_vars

C11_Witness ==
  /\ last.op = "loadConfig" /\ last.out = "InvalidConfig"
  /\ reads = 2 /\ cache = <<>>
  /\ IsFile(fs, configPath)
  /\ IsFile(fs, <<S_legacy_json>>) /\ jsonParse(fs[<<S_legacy_json>>].content).ok

LegacyParse(f, name) ==
  IF ~IsFile(f, <<name>>) THEN [ok |-> FALSE, val |-> Null]
  ELSE IF name = S_legacy_json THEN jsonParse(f[<<name>>].content)
  ELSE yamlParse(f[<<name>>].content)

\* the first legacy file, in the order yml then json, that parses
FirstLegacy(f) ==
  IF LegacyParse(f, S_legacy_yml).ok THEN <<S_legacy_yml>>
  ELSE IF LegacyParse(f, S_legacy_json).ok THEN <<S_legacy_json>>
  ELSE <<>>

\* C12: with no current file and a legacy file that parses, loadConfig writes the
\* current file with the parsed content and only then removes the legacy file: after a
\* call without I/O failure the current file holds the parsed content and only that
\* legacy file is gone; in every state of the disk during the call, also when the write
\* or the removal fails, the current file or the legacy file exists.  With no config
\* file at all the call raises the 'run init first' error.
C12_LegacyMigration ==
  [][(IsCall("loadConfig") /\ cache = <<>> /\ ~pathExists(fs, configPath)) =>
       LET legacy == FirstLegacy(fs)
           parsed == LegacyParse(fs, legacy[1]).val
           disks == <<fs>> \o last'.mid \o <<fs'>>
       IN /\ legacy # <<>> =>
               /\ \A i \in 1..Len(disks) :
                    /\ pathExists(disks[i], configPath) \/ pathExists(disks[i], legacy)
                    /\ ~pathExists(disks[i], legacy) => pathExists(disks[i], configPath)
               /\ (~last'.arg.diskFails /\ ~last'.arg.removeFails) =>
                    /\ last'.out = "ok" /\ ValueOf(last'.ret) = parsed
                    /\ Len(last'.mid) = 2
                    /\ pathExists(last'.mid[1], configPath) /\ pathExists(last'.mid[1], legacy)
                    /\ IsFile(fs', configPath)
                    /\ yamlParse(fs'[configPath].content) = [ok |-> TRUE, val |-> parsed]
                    /\ ~pathExists(fs', legacy)
                    /\ \A p \in DOMAIN fs : p # legacy => (p \in DOMAIN fs' /\ fs'[p] = fs[p])
          /\ (\A p \in ConfigFiles : ~pathExists(fs, p)) =>
               (last'.out = "NoConfig" /\ fs' = fs)]_vars

C12_Witness ==
  /\ last.op = "loadConfig" /\ last.out = "ok" /\ Len(last.mid) = 2
  /\ IsFile(fs, configPath) /\ yamlParse(fs[configPath].content).val = ConfigB
  /\ ~pathExists(fs, <<S_legacy_json>>)
  /\ ValueOf(cache) = ConfigB

\* the configuration a loadConfig call returns in this state
CurrentConfig(f, cached) ==
  IF cached # <<>> THEN ValueOf(cached)
  ELSE IF pathExists(f, configPath) THEN yamlParse(f[configPath].content).val
  ELSE LegacyParse(f, FirstLegacy(f)[1]).val

\* the merge as the specification words it, on the data model of the configuration
\* (mappings have keys; sequences and scalars are values without keys)
RECURSIVE MergedValue(_, _)
MergedValue(current, u) ==
  LET cf == IF current.t = "obj" THEN current.v ELSE <<>>
  IN Obj([k \in DOMAIN cf \cup DOMAIN u.v |->
            IF k \notin DOMAIN u.v THEN cf[k]
            ELSE IF u.v[k].t = "obj"
                 THEN MergedValue(IF k \in DOMAIN cf THEN cf[k] ELSE Obj(<<>>), u.v[k])
                 ELSE u.v[k]])

\* C13: updateConfig(u) returns and persists the merge of u into the current
\* configuration: object values of u are merged recursively, array and scalar values of
\* u replace the current value wholesale, keys absent from u keep their value, and the
\* object loaded before is not mutated (the result is a new object).
C13_UpdateMerges ==
  [][(IsCall("updateConfig") /\ last'.out \notin {"InvalidConfig", "NoConfig", "Error"}) =>
       LET merged == MergedValue(CurrentConfig(fs, cache), last'.arg.updates)
       IN /\ last'.out = "ok"
          /\ ValueOf(last'.ret) = merged
          /\ IsFile(fs', configPath)
          /\ yamlParse(fs'[configPath].content) = [ok |-> TRUE, val |-> merged]
          /\ cache' = last'.ret
          /\ last'.ret[1].oid >= nextOid]_vars

\* a field of a section, or Null when the section or the field is missing
Field(val, section, field) ==
  IF val.t = "obj" /\ section \in DOMAIN val.v /\ val.v[section].t = "obj"
     /\ field \in DOMAIN val.v[section].v
  THEN val.v[section].v[field]
  ELSE Null

NonEmpty(x) == x.t = "str" /\ x.v # <<>>

\* the four conditions of a valid configuration
IsValidConfig(f, val) ==
  /\ NonEmpty(Field(val, "framework", "name"))
  /\ NonEmpty(Field(val, "project", "name"))
  /\ NonEmpty(Field(val, "paths", "modules"))
  /\ NonEmpty(Field(val, "project", "rootDir"))
  /\ Field(val, "project", "rootDir") = RootDir
  /\ pathExists(f, <<Field(val, "paths", "modules").v>>)

\* whether loadConfig would return a configuration in this state
CanLoad(f, cached) ==
  \/ cached # <<>>
  \/ IsFile(f, configPath) /\ yamlParse(f[configPath].content).ok
  \/ ~pathExists(f, configPath) /\ FirstLegacy(f) # <<>>

\* C14: validateConfig never throws; it returns true exactly when framework.name,
\* project.name and paths.modules are non-empty and the modules directory resolved
\* against project.rootDir exists, and false otherwise, also for a missing section, a
\* missing project.rootDir and, without an argument, a configuration that cannot be loaded.
C14_ValidateNeverThrows ==
  [][(IsCall("validateConfig") /\ ~last'.arg.diskFails) =>
       /\ last'.out = "ok"
       /\ last'.ret = <<IF last'.arg.config # <<>>
                        THEN IsValidConfig(fs, last'.arg.config[1])
                        ELSE CanLoad(fs, cache) /\ IsValidConfig(fs, CurrentConfig(fs, cache))>>]_vars

(***************************************************************************)
(* core/framework-detector.ts: FrameworkDetector                           *)
(*                                                                         *)
(* package.json holds one line: the text of a JSON value, or text that is  *)
(* not JSON.  Its dependencies and devDependencies map a package name to a *)
(* version string; npm reads the empty version string as "*".              *)
(***************************************************************************)
MaxDeps == 2

MaxDetections == 2

S_package_lock_json == <<"p","a","c","k","a","g","e","-","l","o","c","k",".","j","s","o","n">>
S_yarn_lock == <<"y","a","r","n",".","l","o","c","k">>
S_pnpm_lock_yaml == <<"p","n","p","m","-","l","o","c","k",".","y","a","m","l">>
S_tsconfig_json == <<"t","s","c","o","n","f","i","g",".","j","s","o","n">>

\* dependencies[name] as a condition
Has(dependencies, name) == name \in DOMAIN dependencies /\ Truthy(dependencies[name])

detectedFramework(dependencies) ==
  IF Has(dependencies, "next") THEN "next"
  ELSE IF Has(dependencies, "nuxt") \/ Has(dependencies, "@nuxt/kit") THEN "nuxt"
  ELSE IF Has(dependencies, "@nestjs/core") THEN "nest"
  ELSE IF Has(dependencies, "vue") \/ Has(dependencies, "@vue/cli-service") THEN "vue"
  ELSE IF Has(dependencies, "svelte") \/ Has(dependencies, "@sveltejs/kit") THEN "svelte"
  ELSE IF Has(dependencies, "@angular/core") THEN "angular"
  ELSE IF Has(dependencies, "express") THEN "express"
  ELSE "react"

detectPackageManager(f) ==
  IF pathExists(f, <<S_yarn_lock>>) THEN "yarn"
  ELSE IF pathExists(f, <<S_pnpm_lock_yaml>>) THEN "pnpm"
  ELSE "npm"

\* the key of the profile object handed out: the object of the table itself, no copy
getFrameworkConfig(framework) == IF framework \in FrameworkKeys THEN framework ELSE "react"

\* the detector reads the disk and writes the version into the profile of the table;
\* "JsonError" is the throw of fs.readJson, "TypeError" the throw of
\* packageJson.dependencies on null.  The result names the profile by its key and
\* shows the version that profile holds when the call returns.
detectFramework(f, table) ==
  LET packageJsonPath == <<S_package_json>>
      packageJson == jsonParse(f[packageJsonPath].content)
      dependencies == Overlay(Prop(packageJson.val, "dependencies"),
                              Prop(packageJson.val, "devDependencies"))
      framework == detectedFramework(dependencies)
      frameworkConfig == getFrameworkConfig(framework)
      written == IF Has(dependencies, framework)
                 THEN [table EXCEPT ![frameworkConfig].version = <<dependencies[framework]>>]
                 ELSE table
  IN IF ~pathExists(f, packageJsonPath)
     THEN [out |-> "NoPackageJson", ret |-> <<>>, table |-> table]
     ELSE IF IsDir(f, packageJsonPath) \/ ~packageJson.ok
     THEN [out |-> "JsonError", ret |-> <<>>, table |-> table]
     ELSE IF packageJson.val = Null THEN [out |-> "TypeError", ret |-> <<>>, table |-> table]
     ELSE [out |-> "ok", table |-> written,
           ret |-> <<[framework |-> frameworkConfig,
                      version |-> written[frameworkConfig].version,
                      hasTypeScript |-> Has(dependencies, "typescript")
                                          \/ pathExists(f, <<S_tsconfig_json>>),
                      hasTesting |-> \/ Has(dependencies, "jest")
                                     \/ Has(dependencies, "vitest")
                                     \/ Has(dependencies, "@testing-library/react"),
                      packageManager |-> detectPackageManager(f)]>>]

(***************************************************************************)
(* The detector applied to project roots: every manifest with at most      *)
(* MaxDeps framework packages, split between dependencies and              *)
(* devDependencies, and every combination of lockfiles.                    *)
(***************************************************************************)
FrameworkPackages ==
  {"next", "react", "nuxt", "@nuxt/kit", "@nestjs/core", "vue", "@vue/cli-service",
   "svelte", "@sveltejs/kit", "@angular/core", "express"}

Version(v) == Str(<<v>>)

Manifest(deps, dev) ==
  Obj([dependencies |-> Obj([k \in deps |-> Version("1")]),
       devDependencies |-> Obj([k \in dev |-> Version("2")])])

Manifests ==
  {Manifest(all \ dev, dev) :
     <<all, dev>> \in {x \in (SUBSET FrameworkPackages) \X (SUBSET FrameworkPackages) :
                         Cardinality(x[1]) <= MaxDeps /\ x[2] \subseteq x[1]}}

\* an empty version string, a manifest without dependency sections, and JSON null
OddManifests ==
  {Obj([dependencies |-> Obj([next |-> Str(<<>>), react |-> Version("1")])]),
   Obj([name |-> Str(<<"p">>), devDependencies |-> Obj([typescript |-> Version("5"),
                                                       vitest |-> Version("1")])]),
   Null}

ManifestTexts ==
  {<<Line("json", <<m>>)>> : m \in Manifests \cup OddManifests} \cup {<<Line("broken", <<>>)>>}

Lockfiles == {<<S_package_lock_json>>, <<S_yarn_lock>>, <<S_pnpm_lock_yaml>>}

RootWith(files) ==
  [p \in {<<>>} \cup DOMAIN files |-> IF p = <<>> THEN DirNode ELSE FileNode(files[p])]

\* the project roots a later detector of the same process is constructed for
OtherRoots ==
  {RootWith([p \in {<<S_package_json>>} |-> <<Line("json", <<m>>)>>]) :
     m \in {Manifest({}, {}), Manifest({"react"}, {}), Manifest({}, {"react"}),
            Manifest({"nuxt"}, {}), Manifest({"@nuxt/kit"}, {}), Manifest({"next", "react"}, {}),
            Manifest({"@nestjs/core"}, {}), Manifest({"vue"}, {"@vue/cli-service"})}}

DetectorInit ==
  /\ \E locks \in SUBSET (Lockfiles \cup {<<S_tsconfig_json>>}) :
       \/ fs = RootWith([p \in locks |-> <<>>])
       \/ \E text \in ManifestTexts :
            fs = RootWith([p \in locks \cup {<<S_package_json>>} |->
                             IF p = <<S_package_json>> THEN text ELSE <<>>])
  /\ config = ReactConfig
  /\ last = [NoCall EXCEPT !.ret = <<>>]
  /\ calls = 0
  /\ created = {}
  /\ cache = <<>>
  /\ nextOid = 1
  /\ reads = 0
  /\ loaded = <<>>
  /\ FRAMEWORK_CONFIGS = InitialProfiles

DetectFramework ==
  LET r == detectFramework(fs, FRAMEWORK_CONFIGS)
  IN /\ calls < MaxDetections
     /\ last' = [op |-> "detectFramework", arg |-> <<>>, out |-> r.out, ret |-> r.ret]
     /\ FRAMEWORK_CONFIGS' = r.table
     /\ calls' = calls + 1
     /\ UNCHANGED <<fs, config, created, cmVars>>

\* a detector constructed for another project root in the same process
NewFrameworkDetector ==
  \E root \in OtherRoots :
    /\ 0 < calls /\ calls < MaxDetections
    /\ root # fs
    /\ fs' = root
    /\ UNCHANGED <<config, FRAMEWORK_CONFIGS, last, calls, created, cmVars>>

DetectorNext ==
  \/ DetectFramework
  \/ NewFrameworkDetector

DetectorSpec == DetectorInit /\ [][DetectorNext]_vars

\* the names declared in dependencies or devDependencies of the manifest
Declared(f) ==
  LET m == jsonParse(f[<<S_package_json>>].content).val
      section(name) == IF m.t = "obj" /\ name \in DOMAIN m.v /\ m.v[name].t = "obj"
                       THEN DOMAIN m.v[name].v ELSE {}
  IN IF IsFile(f, <<S_package_json>>) /\ jsonParse(f[<<S_package_json>>].content).ok
     THEN section("dependencies") \cup section("devDependencies")
     ELSE {}

PriorityList ==
  <<[key |-> "next", packages |-> {"next"}],
    [key |-> "nuxt", packages |-> {"nuxt", "@nuxt/kit"}],
    [key |-> "nest", packages |-> {"@nestjs/core"}],
    [key |-> "vue", packages |-> {"vue", "@vue/cli-service"}],
    [key |-> "svelte", packages |-> {"svelte", "@sveltejs/kit"}],
    [key |-> "angular", packages |-> {"@angular/core"}],
    [key |-> "express", packages |-> {"express"}]>>

FirstMatch(declared) ==
  LET hits == {i \in 1..Len(PriorityList) : PriorityList[i].packages \cap declared # {}}
  IN IF hits = {} THEN "react"
     ELSE PriorityList[CHOOSE i \in hits : \A j \in hits : i <= j].key

\* C15: detection is the first match of the fixed priority list over the packages
\* declared in dependencies and devDependencies, the React profile when nothing
\* matches, and an error only when package.json is missing.
C15_FirstMatch ==
  [][IsCall("detectFramework") =>
       IF ~pathExists(fs, <<S_package_json>>) THEN last'.out = "NoPackageJson"
       ELSE /\ last'.out = "ok"
            /\ last'.ret[1].framework = FirstMatch(Declared(fs))]_vars

\* C16: the package manager is the first of npm, yarn, pnpm whose lockfile
\* (package-lock.json, yarn.lock, pnpm-lock.yaml) exists in the root, npm when none does.
C16_PackageManager ==
  [][(IsCall("detectFramework") /\ last'.out = "ok") =>
       last'.ret[1].packageManager =
         (IF pathExists(fs, <<S_package_lock_json>>) THEN "npm"
          ELSE IF pathExists(fs, <<S_yarn_lock>>) THEN "yarn"
          ELSE IF pathExists(fs, <<S_pnpm_lock_yaml>>) THEN "pnpm"
          ELSE "npm")]_vars

(***************************************************************************)
(* utils/validators.ts: the strict module name check and case conversion   *)
(***************************************************************************)
MaxLen == 3

MinNameLength == 2

MaxNameLength == 50

\* /^[a-z][a-z0-9]*(-[a-z0-9]+)*$/
moduleNameRegex(name) ==
  /\ Len(name) > 0
  /\ name[1] \in Lower
  /\ \A i \in 1..Len(name) : name[i] \in Lower \cup Digit \cup {"-"}
  /\ name[Len(name)] # "-"
  /\ \A i \in 1..(Len(name) - 1) : ~(name[i] = "-" /\ name[i + 1] = "-")

moduleNameSchema_NoMax(name) ==
  (IF moduleNameRegex(name) THEN <<>> ELSE <<"kebab-case">>)
    \o (IF Len(name) >= MinNameLength THEN <<>> ELSE <<"at least 2">>)

\* the issues zod reports, in the order of the checks: regex, min, max
moduleNameSchema(name) ==
  (IF moduleNameRegex(name) THEN <<>> ELSE <<"kebab-case">>)
    \o (IF Len(name) >= MinNameLength THEN <<>> ELSE <<"at least 2">>)
    \o (IF Len(name) <= MaxNameLength THEN <<>> ELSE <<"less than 50">>)

validateModuleNameStrict(name) ==
  LET errors == moduleNameSchema(name)
  IN IF errors = <<>> THEN [out |-> "ok", ret |-> <<>>]
     ELSE [out |-> "ValidationError",
           ret |-> <<[message |-> errors[1],
                      details |-> [name |-> name, errors |-> errors]]>>]

\* str.split('-')
RECURSIVE Split(_)
Split(str) ==
  IF \A i \in 1..Len(str) : str[i] # "-" THEN <<str>>
  ELSE LET at == CHOOSE i \in 1..Len(str) :
                   str[i] = "-" /\ \A j \in 1..(i - 1) : str[j] # "-"
       IN <<SubSeq(str, 1, at - 1)>> \o Split(SubSeq(str, at + 1, Len(str)))

\* words.join('')
RECURSIVE Join(_)
Join(words) == IF words = <<>> THEN <<>> ELSE Head(words) \o Join(Tail(words))

\* word.charAt(0).toUpperCase() + word.slice(1).toLowerCase()
Capitalize(word) ==
  IF word = <<>> THEN <<>>
  ELSE <<toUpperCase(word[1])>> \o MapChars(toLowerCase, Tail(word))

toPascalCase(str) == Join([i \in 1..Len(Split(str)) |-> Capitalize(Split(str)[i])])

toCamelCase(str) ==
  LET pascalCase == toPascalCase(str)
  IN IF pascalCase = <<>> THEN <<>>
     ELSE <<toLowerCase(pascalCase[1])>> \o Tail(pascalCase)

(***************************************************************************)
(* The naming utilities applied to every string of at most MaxLen          *)
(* characters over a small alphabet and to names around the length limit.  *)
(***************************************************************************)
NameAlphabet == {"a", "b", "1", "-", "A", "_"}

Repeat(c, n) == [i \in 1..n |-> c]

LongNames ==
  {Repeat("a", n) : n \in {MaxNameLength - 1, MaxNameLength, MaxNameLength + 1}}
    \cup {<<"a", "-">> \o Repeat("b", MaxNameLength - 2),
          <<"a", "-">> \o Repeat("b", MaxNameLength - 1),
          <<"A">> \o Repeat("b", MaxNameLength)}

Names == UNION {[1..n -> NameAlphabet] : n \in 0..MaxLen} \cup LongNames

NamingInit ==
  /\ fs = EmptyRoot
  /\ config = ReactConfig
  /\ last = [NoCall EXCEPT !.ret = <<>>]
  /\ calls = 0
  /\ created = {}
  /\ cache = <<>>
  /\ nextOid = 1
  /\ reads = 0
  /\ loaded = <<>>
  /\ FRAMEWORK_CONFIGS = InitialProfiles

ValidateModuleNameStrict ==
  \E name \in Names :
    /\ calls = 0
    /\ last' = [op |-> "validateModuleNameStrict", arg |-> name,
                out |-> validateModuleNameStrict(name).out,
                ret |-> validateModuleNameStrict(name).ret]
    /\ calls' = calls + 1
    /\ UNCHANGED <<fs, config, FRAMEWORK_CONFIGS, created, cmVars>>

ConvertCase ==
  \E str \in Names :
    /\ calls = 0
    /\ last' = [op |-> "toCamelCase", arg |-> str, out |-> "ok",
                ret |-> <<[pascal |-> toPascalCase(str), camel |-> toCamelCase(str),
                           camelOfPascal |-> toCamelCase(toPascalCase(str))]>>]
    /\ calls' = calls + 1
    /\ UNCHANGED <<fs, config, FRAMEWORK_CONFIGS, created, cmVars>>

NamingNext ==
  \/ ValidateModuleNameStrict
  \/ ConvertCase

NamingSpec == NamingInit /\ [][NamingNext]_vars

\* kebab-case that starts with a letter
StrictKebab(str) == Len(str) > 0 /\ str[1] \in Lower /\ IsKebabCase(str)

\* C17: validateModuleNameStrict does not raise for a string that matches
\* ^[a-z][a-z0-9]*(-[a-z0-9]+)*$ and has 2 to 50 characters; it raises a ValidationError
\* whose details carry the name for a string that holds an uppercase letter or an
\* underscore, starts with a digit, or has fewer than 2 or more than 50 characters.
C17_StrictName ==
  [][IsCall("validateModuleNameStrict") =>
       LET name == last'.arg
       IN /\ (StrictKebab(name) /\ Len(name) >= 2 /\ Len(name) <= 50) => last'.out = "ok"
          /\ (\/ \E i \in 1..Len(name) : name[i] \in Upper \cup {"_"}
              \/ Len(name) > 0 /\ name[1] \in Digit
              \/ Len(name) < 2
              \/ Len(name) > 50)
               => (/\ last'.out = "ValidationError"
                   /\ last'.ret[1].details.name = name)]_vars

C17_Witness ==
  /\ last.op = "validateModuleNameStrict" /\ last.out = "ValidationError"
  /\ StrictKebab(last.arg) /\ Len(last.arg) = 51
  /\ last.ret[1].details.name = last.arg

\* C18: for a kebab-case input of lowercase alphanumeric segments, toCamelCase(x) is
\* toPascalCase(x) with its first character lower-cased, and toCamelCase applied to
\* toPascalCase(x) gives toCamelCase(x).
C18_CaseComposition ==
  [][(IsCall("toCamelCase") /\ IsKebabCase(last'.arg)) =>
       LET r == last'.ret[1]
       IN /\ r.camel = <<toLowerCase(r.pascal[1])>> \o Tail(r.pascal)
          /\ r.camelOfPascal = r.camel]_vars

\* C19: on a root that holds a config file named misan.config.yml (and none under the
\* default name), getConfigPath returns the path of that file.
C19_AlternativeName ==
  [][(/\ IsCall("getConfigPath")
      /\ IsFile(fs, <<S_misan_yml>>) /\ ~pathExists(fs, configPath))
       => last'.ret = <<<<S_misan_yml>>>>]_vars

\* C20: createModule performs no rollback.  When a step after the creation of the
\* module directory fails, the error leaves on disk everything that was there before
\* the call and everything created before the failure (here the render of the README:
\* the module directory, its subdirectories and the root index file); a createModule
\* with the same name right after it, and any createModule while that directory exists,
\* raises 'already exists' and changes nothing.
C20_NoRollback ==
  [][IsCall("createModule") =>
       LET ms == moduleStructureOf(config, last'.arg)
           indexFile == S_index \o config.conventions.file_extensions.component
       IN /\ (/\ last'.out = "Error"
              /\ ~pathExists(fs, ms.path)
              /\ \A k \in 0..Len(ms.path) : ~IsFile(fs, SubSeq(ms.path, 1, k)))
               => (/\ \A p \in DOMAIN fs : p \in DOMAIN fs' /\ fs'[p] = fs[p]
                   /\ IsDir(fs', ms.path)
                   /\ \A i \in 1..Len(ms.components) : IsDir(fs', Append(ms.path, ms.components[i]))
                   /\ IsFile(fs', Append(ms.path, indexFile))
                   /\ ~pathExists(fs', Append(ms.path, S_README_md)))
          /\ (/\ IsKebabCase(last'.arg.name)
              /\ \/ IsDir(fs, ms.path)
                 \/ (/\ last.op = "createModule" /\ last.out = "Error"
                     /\ modulePathOf(config, last.arg) = ms.path /\ pathExists(fs, ms.path)))
               => (last'.out = "AlreadyExists" /\ fs' = fs)]_vars

C20_Witness ==
  /\ calls = 2 /\ last.op = "createModule" /\ last.out = "AlreadyExists"
  /\ IsDir(fs, modulePathOf(config, last.arg))
  /\ IsFile(fs, Append(modulePathOf(config, last.arg),
                       S_index \o config.conventions.file_extensions.component))
  /\ ~pathExists(fs, Append(modulePathOf(config, last.arg), S_README_md))
  /\ ~pathExists(fs, modulePathOf(config, last.arg) \o <<S_components, S_index_ts>>)
  /\ IsDir(fs, Append(modulePathOf(config, last.arg), S_components))

\* C21: the feature-driven subdirectories are gated by the framework.  A successful
\* createModule whose component list names none of them creates pages and routes only
\* when routing is requested and the framework type is not backend, and api and
\* controllers only when api is requested and the framework profile declares
\* features.api.
C21_FrameworkGates ==
  [][(IsCall("createModule") /\ last'.out = "ok") =>
       LET ms == moduleStructureOf(config, last'.arg)
           made(d) == d \notin Range(ms.components) /\ IsDir(fs', Append(ms.path, d))
       IN /\ \A d \in {S_pages, S_routes} :
               made(d) => (ms.hasRouting /\ config.framework.type # "backend")
          /\ \A d \in {S_api, S_controllers} :
               made(d) => (ms.hasApi /\ config.framework.features.api)]_vars

\* C22: createService, createType, createTest and createAPI validate the entity name
\* first.  Called with a name that is not kebab-case, each raises the validation error
\* and creates no directory and no file, whether or not the target module exists.
C22_EntityNameFirst ==
  [][(/\ \E op \in {"createService", "createType", "createTest", "createAPI"} : IsCall(op)
      /\ ~IsKebabCase(last'.arg.name))
       => (last'.out = "InvalidName" /\ fs' = fs)]_vars

\* C23: framework profiles are never mutated after creation.  Every detectFramework
\* call leaves the profile table as it was, and the profile it returns, the version
\* field included, is the one a detection of the same root yields on the table as
\* it is when the process starts.
C23_ProfilesImmutable ==
  [][IsCall("detectFramework") =>
       /\ FRAMEWORK_CONFIGS' = FRAMEWORK_CONFIGS
       /\ last'.out = detectFramework(fs, InitialProfiles).out
       /\ last'.ret = detectFramework(fs, InitialProfiles).ret]_vars

\* C24: every configuration returned by a successful loadConfig has non-empty
\* framework.name, project.name and paths.modules, whatever the content of the
\* current-format or legacy file it was read from.
C24_LoadedFieldsNonEmpty ==
  [][(IsCall("loadConfig") /\ last'.out = "ok") =>
       LET val == last'.ret[1].val
       IN /\ NonEmpty(Field(val, "framework", "name"))
          /\ NonEmpty(Field(val, "project", "name"))
          /\ NonEmpty(Field(val, "paths", "modules"))]_vars

\* the subdirectory an entity operation writes its file to
EntityDirOf(op) ==
  CASE op = "createService" -> S_services
    [] op = "createType" -> S_types
    [] op = "createTest" -> S_tests
    [] op = "createAPI" -> S_api

\* C25: after a successful createService, createType, createTest or createAPI for
\* entity E, the index.ts of the subdirectory the file was written to holds the export
\* line of E, appended only if it was absent.
C25_IndexUpdated ==
  [][(/\ \E op \in {"createService", "createType", "createTest", "createAPI"} : IsCall(op)
      /\ last'.out = "ok") =>
       LET indexPath == Append(config.paths.modules, last'.arg.moduleName)
                          \o <<EntityDirOf(last'.op), S_index_ts>>
           exportLine == Line("export", last'.arg.name)
       IN /\ IsFile(fs', indexPath)
          /\ Includes(fs'[indexPath].content, exportLine)
          /\ (IsFile(fs, indexPath) /\ Includes(fs[indexPath].content, exportLine))
               => fs'[indexPath] = fs[indexPath]]_vars

\* C26: the ModuleStructure returned by a successful createModule equals the record
\* analyzeModule reconstructs for the module right afterwards: the same set of
\* components, the same hasRouting, hasApi and hasTests, and isStandalone and
\* hasPackageJson true iff a package.json exists inside the module.
C26_ReturnedEqualsAnalyzed ==
  [][(IsCall("createModule") /\ last'.out = "ok") =>
       \A s \in last'.ret :
         LET a == analyzeModule(fs', s.name, s.path)
         IN /\ s.components = a.components
            /\ s.hasRouting = a.hasRouting
            /\ s.hasApi = a.hasApi
            /\ s.hasTests = a.hasTests
            /\ s.isStandalone = pathExists(fs', Append(s.path, S_package_json))
            /\ s.hasPackageJson = pathExists(fs', Append(s.path, S_package_json))]_vars

\* C27: dry run and real run use the same naming substitution rule.  The code, test
\* and documentation paths that saveGeneratedCode reports under dryRun = true are the
\* paths that the same call with dryRun = false writes.
C27_DryRunSameNames ==
  [][(IsCall("saveGeneratedCode") /\ last'.arg.dryRun) =>
       LET real == saveGeneratedCode(fs, last'.arg.response, last'.arg.targetPath,
                                     last'.arg.fileName, FALSE)
       IN real.out = "ok" => last'.ret = real.ret]_vars

\* C28: initializeConfig keeps every detected or default value the overrides do not
\* mention, also inside a section that is only partly overridden: the result has
\* features.typescript = hasTypeScript, features.testing = hasTesting, paths.shared,
\* paths.tests and conventions.file_extensions from the framework profile, unless
\* the overrides name that field, and every overridden field has the override value.
C28_OverridesKeepTheRest ==
  [][(IsCall("initializeConfig") /\ last'.out = "ok") =>
       LET val == last'.ret[1].val
           structure == last'.arg.projectStructure
           options == last'.arg.options
           kept(section, field, expected) ==
             Field(options, section, field) = Null => Field(val, section, field) = expected
       IN /\ kept("features", "typescript", Bool(structure.hasTypeScript))
          /\ kept("features", "testing", Bool(structure.hasTesting))
          /\ kept("paths", "shared", Field(structure.framework, "paths", "shared"))
          /\ kept("paths", "tests", Field(structure.framework, "paths", "tests"))
          /\ kept("conventions", "file_extensions", Prop(structure.framework, "extensions"))
          /\ \A section \in DOMAIN options.v :
               \A field \in DOMAIN options.v[section].v :
                 Field(val, section, field) = options.v[section].v[field]]_vars

\* C29: a module created by a successful createModule is reachable by the operations
\* that follow it: listModules reports it, createComponent and createService called
\* with its name do not raise 'not found', and deleteModule removes it; also when
\* createModule was given a custom path.
C29_CreatedIsReachable ==
  [][(last.op = "createModule" /\ last.out = "ok") =>
       LET name == last.arg.name
           modulePath == modulePathOf(config, last.arg)
       IN /\ IsCall("listModules") =>
               \E s \in last'.ret : s.name = name /\ s.path = modulePath
          /\ ((IsCall("createComponent") \/ IsCall("createService"))
                /\ last'.arg.moduleName = name) => last'.out # "NotFound"
          /\ (IsCall("deleteModule") /\ last'.arg.name = name) =>
               (last'.out = "ok" /\ ~pathExists(fs', modulePath))]_vars

\* C30: cache and disk agree.  After an initializeConfig, saveConfig, updateConfig or
\* config:set that succeeds, the cached configuration is the one the call wrote to the
\* config file; when the file write of such a call fails, the cached configuration is
\* what it was before the call.
C30_CacheMatchesDisk ==
  [][(\E op \in {"initializeConfig", "saveConfig", "updateConfig", "setConfigValue"} :
        IsCall(op)) =>
       /\ last'.out = "ok" =>
            /\ cache' # <<>>
            /\ IsFile(fs', configPath)
            /\ yamlParse(fs'[configPath].content) = [ok |-> TRUE, val |-> ValueOf(cache')]
       /\ (last'.arg.diskFails /\ last'.out # "ok") => cache' = cache]_vars

====
